---- MODULE Spec2Model ----
(***************************************************************************)
(* file-maintenance: the maintenance engine (Worker) of                    *)
(* internal/maintenance, with the path helpers, the copy layer and the     *)
(* directory reclamation it calls, app.Run around it, and the log files    *)
(* the logger of internal/logging writes while they run.                   *)
(*                                                                         *)
(* A path is a sequence of segments whose first element is the volume      *)
(* ("C:"), so <<"C:", "r1", "a.txt">> is C:\r1\a.txt.  A relative path is  *)
(* a sequence of segments that may start with ".." segments.               *)
(* Time is counted in days: `today' is time.Now(), read afresh by every    *)
(* call that reads the clock.                                              *)
(***************************************************************************)
EXTENDS Integers, Sequences, FiniteSets, TLC

(***************************************************************************)
(* Bounds of the model.                                                    *)
(***************************************************************************)
MaxQueue == 1
MaxFilesCap == 1
MaxRetries == 1
MaxFaults == 1

(***************************************************************************)
(* path/filepath                                                           *)
(***************************************************************************)
Lower(s) ==
  CASE s = "C:" -> "c:"
    [] s = "D:" -> "d:"
    [] s = "Sub" -> "sub"
    [] OTHER -> s

\* strings.EqualFold on the joined path: segment-wise case folding
Fold(p) == [i \in DOMAIN p |-> Lower(p[i])]

\* filepath.Dir: all but the last element; the volume root is its own parent
Dir(p) == IF Len(p) <= 1 THEN p ELSE SubSeq(p, 1, Len(p) - 1)

RECURSIVE CleanFrom(_, _)
\* lexical processing of the segments of `rest' onto the cleaned prefix `acc'
CleanFrom(acc, rest) ==
  IF rest = <<>> THEN acc
  ELSE LET s == Head(rest) IN
       IF s = "." THEN CleanFrom(acc, Tail(rest))
       ELSE IF s = ".."
            THEN IF Len(acc) > 1 THEN CleanFrom(SubSeq(acc, 1, Len(acc) - 1), Tail(rest))
                 ELSE CleanFrom(acc, Tail(rest))
            ELSE CleanFrom(Append(acc, s), Tail(rest))

\* filepath.Clean of a rooted path: "." dropped, ".." resolved, ".." at the root dropped
Clean(p) == IF p = <<>> THEN p ELSE CleanFrom(<<Head(p)>>, Tail(p))

\* filepath.Abs of a rooted path is Clean
Abs(p) == Clean(p)

\* filepath.Join: concatenate and Clean
Join(base, rel) == Clean(base \o rel)

RECURSIVE CommonLen(_, _)
\* number of leading segments two cleaned paths share
CommonLen(a, b) ==
  IF a = <<>> \/ b = <<>> THEN 0
  ELSE IF Head(a) = Head(b) THEN 1 + CommonLen(Tail(a), Tail(b)) ELSE 0

\* filepath.Rel(base, targ): error when the volumes differ, "." when equal,
\* else one ".." per remaining segment of base followed by the rest of targ
Rel(base, targ) ==
  LET b == Clean(base)
      t == Clean(targ)
      n == CommonLen(b, t)
  IN IF b = <<>> \/ t = <<>> \/ Head(b) # Head(t)
     THEN [err |-> TRUE, rel |-> <<>>]
     ELSE IF b = t
          THEN [err |-> FALSE, rel |-> <<".">>]
          ELSE [err |-> FALSE,
                rel |-> [i \in 1..(Len(b) - n) |-> ".."] \o SubSeq(t, n + 1, Len(t))]

\* p lies strictly below d
IsUnder(p, d) == Len(p) > Len(d) /\ SubSeq(p, 1, Len(d)) = d

(***************************************************************************)
(* The filesystem at the start of the run.  Every source file holds its    *)
(* own content, named by its path.  MTime is the modification day.         *)
(***************************************************************************)
R1 == <<"C:", "r1">>
R2 == <<"C:", "r2">>
R1Sub == <<"C:", "r1", "Sub">>
R1Deep == <<"C:", "r1", "Sub", "deep">>
FileA1 == <<"C:", "r1", "a.txt">>
FileNew == <<"C:", "r1", "new.txt">>
FileOld == <<"C:", "r1", "Sub", "deep", "old.txt">>
FileA2 == <<"C:", "r2", "a.txt">>
Missing == <<"C:", "gone">>
LinkDir == <<"C:", "ln">>
Link == <<"C:", "ln", "cur">>

\* Link is a symbolic link to the directory R2: a non-directory entry of
\* LinkDir for os.Lstat, os.ReadDir and os.Remove, a directory for os.Stat
Links == {Link}

InitDirs == {<<"C:">>, R1, R2, R1Sub, R1Deep, LinkDir}
InitFiles == {FileA1, FileNew, FileOld, FileA2, Link}
MTime(p) == IF p = FileNew THEN 25 ELSE 20

\* the names of directory entries in the order os.ReadDir returns them (sorted)
Names == <<"Sub", "a.txt", "cur", "deep", "ln", "new.txt", "old.txt", "r1", "r2">>

BackupRoot == <<"D:", "bk">>

\* the log directory (cfg.LogSettings.LogDir) and what it can hold: log files
\* of three ages, and a subdirectory with an old file in it
LogDir == <<"C:", "logs">>
LogOld == <<"C:", "logs", "maintenance_old.log">>
LogCut == <<"C:", "logs", "errors_cut.log">>
LogNew == <<"C:", "logs", "count_new.log">>
LogSub == <<"C:", "logs", "archive">>
LogSubOld == <<"C:", "logs", "archive", "old.log">>

\* the files Logger.Log appends to on the given day: their names carry
\* now.Format("2006-01-02")
MaintenanceLog(day) ==
  Append(LogDir, IF day = 30 THEN "maintenance_2026-01-30.log"
                 ELSE "maintenance_2026-01-31.log")
CountLog(day) ==
  Append(LogDir, IF day = 30 THEN "count_2026-01-30.log" ELSE "count_2026-01-31.log")
ErrorLog(day) ==
  Append(LogDir, IF day = 30 THEN "errors_2026-01-30.log" ELSE "errors_2026-01-31.log")

\* the log files of the days of the run
DayLogs == UNION {{MaintenanceLog(d), CountLog(d), ErrorLog(d)} : d \in {30, 31}}

\* the modification time of a log file: a file of the run was last written
\* on the day in its name
LogMTime(p) ==
  IF p \in {MaintenanceLog(30), CountLog(30), ErrorLog(30)} THEN 30
  ELSE IF p \in {MaintenanceLog(31), CountLog(31), ErrorLog(31)} THEN 31
  ELSE IF p = LogNew THEN 29 ELSE IF p = LogCut THEN 25 ELSE 20

\* the names of the entries of the log tree in the order os.ReadDir returns them
LogNames == <<"archive", "count_2026-01-30.log", "count_2026-01-31.log",
              "count_new.log", "errors_2026-01-30.log", "errors_2026-01-31.log",
              "errors_cut.log", "maintenance_2026-01-30.log",
              "maintenance_2026-01-31.log", "maintenance_old.log", "old.log">>

\* the log tree before the run: LogDir missing, LogDir a regular file, or a
\* directory with any of the log files and with or without the subdirectory
LogLayouts ==
  { [files |-> {}, dirs |-> {<<"C:">>}],
    [files |-> {LogDir}, dirs |-> {<<"C:">>}] }
  \cup { [files |-> fs, dirs |-> {<<"C:">>, LogDir}] : fs \in SUBSET {LogOld, LogCut, LogNew} }
  \cup { [files |-> fs \cup {LogSubOld}, dirs |-> {<<"C:">>, LogDir, LogSub}] :
           fs \in SUBSET {LogOld, LogCut, LogNew} }

\* config.ini as parseIniSections returns it: is there a [backup] section and
\* what is its path value (<<>>: no value)
IniFiles ==
  { [section |-> FALSE, path |-> <<>>],
    [section |-> TRUE, path |-> <<>>],
    [section |-> TRUE, path |-> BackupRoot] }

\* a config.ini that names the backup root
LoadedIni == [section |-> TRUE, path |-> BackupRoot]

\* cfg.LogSettings.NoLogs and cfg.LogRetention
LogConfigs == [NoLogs : BOOLEAN, LogRetention : {1, 5}]

\* the days the run can span: it starts on the first and may pass midnight
Clock == <<30, 31>>

\* time.Now().Format("02Jan06")
DateLabel(day) == IF day = 30 THEN "30Jan26" ELSE "31Jan26"

(***************************************************************************)
(* Configuration: types.PathConfig lists and types.AppConfig values.       *)
(***************************************************************************)
PathConfig(path, backup) == [Path |-> path, Backup |-> backup]

RootLists ==
  { <<PathConfig(R1, TRUE)>>,
    <<PathConfig(R1, TRUE), PathConfig(R2, TRUE)>>,
    <<PathConfig(R1Sub, FALSE), PathConfig(R1Deep, TRUE)>>,
    <<PathConfig(FileA2, TRUE), PathConfig(R2, FALSE)>>,
    <<PathConfig(FileNew, TRUE)>>,
    <<PathConfig(Missing, TRUE), PathConfig(R2, TRUE)>>,
    <<PathConfig(Link, FALSE)>>,
    <<PathConfig(R2, TRUE), PathConfig(Link, TRUE)>> }

\* More walkers than roots never run, so Walkers ranges up to the number of
\* roots.  SpansMidnight: the calendar date may change during the run.
\* DayConfigs: runs without a runtime limit (with the smallest queue; a
\* cooldown or retries, not both).
DayConfigs ==
  { c \in UNION { [ roots : {r},
                    Days : {5},
                    Walkers : 1..Len(r),
                    QueueSize : {1},
                    MaxFiles : {0, MaxFilesCap},
                    MaxRuntime : {0},
                    Cooldown : {0, 1},
                    Retries : {0, MaxRetries},
                    SpansMidnight : {FALSE} ] : r \in RootLists } :
      c.Cooldown = 0 \/ c.Retries = 0 }

\* TimedConfigs: runs with a runtime limit, which the clock may reach at any
\* moment of the run (with the smallest queue; a cooldown with one walker).
TimedConfigs ==
  { c \in UNION { [ roots : {r},
                    Days : {5},
                    Walkers : 1..Len(r),
                    QueueSize : {1},
                    MaxFiles : {0},
                    MaxRuntime : {1},
                    Cooldown : {0, 1},
                    Retries : {0},
                    SpansMidnight : {FALSE} ] : r \in RootLists } :
      c.Cooldown = 0 \/ c.Walkers = 1 }

\* NightConfigs: runs during which the calendar date may change (one walker)
NightConfigs ==
  UNION { [ roots : {r},
            Days : {5},
            Walkers : {1},
            QueueSize : {1},
            MaxFiles : {0},
            MaxRuntime : {0},
            Cooldown : {0},
            Retries : {0},
            SpansMidnight : {TRUE} ] : r \in RootLists }

\* DefaultedConfigs: runs whose configured walker count is not positive
DefaultedConfigs ==
  [ roots : {<<PathConfig(R1, TRUE), PathConfig(R2, TRUE)>>},
    Days : {5},
    Walkers : {-1, 0},
    QueueSize : {1},
    MaxFiles : {0},
    MaxRuntime : {0},
    Cooldown : {0},
    Retries : {0},
    SpansMidnight : {FALSE} ]

\* QueueConfigs: runs whose queue holds several jobs at a time
QueueConfigs ==
  [ roots : {<<PathConfig(R1, TRUE), PathConfig(R2, TRUE)>>},
    Days : {5},
    Walkers : {1, 2},
    QueueSize : {MaxQueue + 1},
    MaxFiles : {0},
    MaxRuntime : {0},
    Cooldown : {0},
    Retries : {0},
    SpansMidnight : {FALSE} ]

\* RepeatConfigs: runs in which the same directory is configured twice
RepeatConfigs ==
  [ roots : {<<PathConfig(R2, TRUE), PathConfig(R2, FALSE)>>},
    Days : {5},
    Walkers : {1, 2},
    QueueSize : {1},
    MaxFiles : {0},
    MaxRuntime : {0},
    Cooldown : {0},
    Retries : {0},
    SpansMidnight : {FALSE} ]

Configs ==
  DayConfigs \cup TimedConfigs \cup NightConfigs \cup DefaultedConfigs
    \cup QueueConfigs \cup RepeatConfigs

NoJob == [srcPath |-> <<>>, folderRoot |-> <<>>, backup |-> FALSE]

\* the backup gate before it is evaluated
NoGate == [calls |-> 0, kind |-> "none", createOK |-> FALSE, removeOK |-> FALSE,
           ok |-> FALSE]

VARIABLES
  cfg,        \* pathConfigs and cfg of this run
  gate,       \* Run: calls of CheckBackupPath, what it met and what it returned
  today,      \* time.Now(), in days
  elapsed,    \* time.Since(start), in units of cfg.MaxRuntime
  files,      \* source files on disk
  dirs,       \* source directories on disk
  bk,         \* backup files on disk: destination path -> content
  bkdirs,     \* backup directories on disk
  tmps,       \* destinations whose ".tmp" sibling is on disk
  jobs,       \* the jobs channel
  closed,     \* close(jobs) has happened
  processed,  \* processed counter
  deletedByFolder,
  firstErr,   \* what firstErr.Load() returns, <<>> for nil; no run stores into it
  cancelled,  \* ctx.Err() != nil; cancel() runs only as Worker returns
  mpc, mi,    \* Worker's own goroutine: position, next pathConfig
  ri,         \* Worker's own goroutine: next pathConfig of the final reporting
  wpc, wtodo, \* walkers, by pathConfig index: position, entries still to visit
  ppc,        \* processor: position
  job, dstPath, attempt,  \* processor: job in hand, its destination, copy attempt
  cur,        \* processor: the directory cleanupEmptyDirs is at (<<>> outside it)
  copyErr,    \* processor: what copyFileWithRetry returned for the job in hand
  faults,     \* injected I/O failures so far (bounded by MaxFaults)
  handled,    \* history: jobs that passed the processor's stop check
  delLog,     \* history: successful deletes, with the destination of the job
  enq,        \* history: jobs sent on the channel, by pathConfig index
  waits,      \* history: the backoffs copyFileWithRetry slept for the job in hand
  result,     \* what Worker returned ("none" before it returns)
  report,     \* the per-path lines of the final reporting
  warned      \* the "Stopped due to ..." lines of the end-of-run reporting

VARIABLES
  ini,        \* config.ini: whether it has a [backup] section, and its path value
  logcfg,     \* cfg.LogSettings.NoLogs and cfg.LogRetention of this run
  logfiles,   \* log directory: the non-directory entries on disk, at any depth
  logdirs,    \* log directory: the directories on disk
  rpc,        \* Run after the gate: position
  ltodo,      \* RemoveOldLogs: entries still to visit
  runres,     \* what Run returned ("none" before it returns)
  rmfail,     \* history: the entries whose os.Remove failed in RemoveOldLogs
  prunes      \* history: calls of RemoveOldLogs

\* the state of Worker and of the gate
wvars == <<warned, ri, cfg, gate, today, elapsed, files, dirs, bk, bkdirs, tmps, jobs, closed, processed,
           deletedByFolder, firstErr, cancelled, mpc, mi, wpc, wtodo, ppc, job,
           dstPath, cur, attempt, copyErr, faults, handled, delLog, enq, waits, result,
           report>>

\* the state of Run around Worker: the configuration, the log directory and
\* the housekeeping
lvars == <<ini, logcfg, logfiles, logdirs, rpc, ltodo, runres, rmfail, prunes>>

\* lvars without the files of the log directory
lrest == <<ini, logcfg, logdirs, rpc, ltodo, runres, rmfail, prunes>>

vars == <<wvars, lvars>>

\* Logger.Log for lines of the given levels (DEBUG is not enabled): with NoLogs
\* the lines go to stdout; else each is appended (O_CREATE) to the maintenance
\* file of the day, a COUNT line to the count file and an ERROR line to the
\* errors file as well.  Nothing is written when the file cannot be opened
\* because LogDir is not a directory.
LogTargets(levels) ==
  IF levels = {} \/ logcfg.NoLogs \/ LogDir \notin logdirs THEN {}
  ELSE {MaintenanceLog(today)}
         \cup (IF "COUNT" \in levels THEN {CountLog(today)} ELSE {})
         \cup (IF "ERROR" \in levels THEN {ErrorLog(today)} ELSE {})

Log(levels) == logfiles' = logfiles \cup LogTargets(levels)

Roots == cfg.roots
NRoots == Len(cfg.roots)

\* Run has read the configuration and logged its paths: file logging is on
\* (logging.New has made LogDir a directory), retention is five days and the
\* log directory holds the entries of earlier runs and the maintenance log
\* of the day
LogInit ==
  /\ ini = LoadedIni
  /\ logcfg = [NoLogs |-> FALSE, LogRetention |-> 5]
  /\ logfiles = {LogOld, LogCut, LogNew, LogSubOld, MaintenanceLog(Clock[1])}
  /\ logdirs = {<<"C:">>, LogDir, LogSub}
  /\ rpc = "worker"
  /\ ltodo = <<>>
  /\ runres = "none"
  /\ rmfail = {}
  /\ prunes = 0

Init ==
  /\ LogInit
  /\ cfg \in Configs
  /\ gate = NoGate
  /\ today = Clock[1]
  /\ elapsed = 0
  /\ files = InitFiles
  /\ dirs = InitDirs
  /\ bk = <<>>
  /\ bkdirs = {}
  /\ tmps = {}
  /\ jobs = <<>>
  /\ closed = FALSE
  /\ processed = 0
  /\ deletedByFolder = [d \in InitDirs \cup Links |-> 0]
  /\ firstErr = <<>>
  /\ cancelled = FALSE
  /\ mpc = "run"
  /\ mi = 1
  /\ wpc = [i \in 1..NRoots |-> "none"]
  /\ wtodo = [i \in 1..NRoots |-> <<>>]
  /\ ppc = "dequeue"
  /\ job = NoJob
  /\ ri = 1
  /\ dstPath = <<>>
  /\ cur = <<>>
  /\ attempt = 0
  /\ copyErr = "none"
  /\ faults = 0
  /\ handled = 0
  /\ delLog = {}
  /\ enq = [i \in 1..NRoots |-> 0]
  /\ waits = <<>>
  /\ result = "none"
  /\ report = {}
  /\ warned = {}

(***************************************************************************)
(* Helpers of the maintenance package                                      *)
(***************************************************************************)
\* IsFileOlder with the cutoff itself counted as older
IsFileOlderOrAtCutoff(mtime, days) == mtime <= today - days

\* IsFileOlder: ModTime strictly before now - days
IsFileOlder(mtime, days) == mtime < today - days

\* DoesFileExist answering "no" whatever is there
DoesFileExistNever(path, statErr) == FALSE

\* DoesFileExist: os.Stat succeeds (on a file or on a directory), or fails
\* with anything but "not exist"; statErr is the outcome "os.Stat fails with
\* another error"
DoesFileExist(path, statErr) ==
  IF path \in DOMAIN bk \cup bkdirs THEN TRUE ELSE statErr

\* buildBackupPath: backupRoot / <date of this call> / Rel(folder, srcPath)
buildBackupPath(backupRoot, folder, srcPath) ==
  LET r == Rel(folder, srcPath)
  IN IF r.err THEN [err |-> TRUE, path |-> <<>>]
     ELSE [err |-> FALSE,
           path |-> Join(backupRoot, <<DateLabel(today)>> \o r.rel)]

\* samePath: case-insensitive comparison of the absolute paths
samePath(a, b) == Fold(Abs(a)) = Fold(Abs(b))

\* isDirEmpty on the directory tree ds with the files fs
isDirEmpty(d, ds, fs) == ~ \E q \in ds \cup fs : Dir(q) = d /\ q # d

\* backoffForAttempt growing by 250 ms per attempt
backoffForAttemptLinear(a) == 250 * (a + 1)

\* backoffForAttempt, in milliseconds
backoffForAttempt(a) ==
  CASE a = 0 -> 250
    [] a = 1 -> 1000
    [] OTHER -> 3000

\* shouldStop with the file cap compared by > instead of >=
shouldStopAfterCap ==
  \/ cfg.MaxRuntime > 0 /\ elapsed >= cfg.MaxRuntime
  \/ cfg.MaxFiles > 0 /\ processed > cfg.MaxFiles

\* shouldStop without the file cap
shouldStopRuntimeOnly == cfg.MaxRuntime > 0 /\ elapsed >= cfg.MaxRuntime

\* shouldStop
shouldStop ==
  \/ cfg.MaxRuntime > 0 /\ elapsed >= cfg.MaxRuntime
  \/ cfg.MaxFiles > 0 /\ processed >= cfg.MaxFiles

\* os.ReadDir with the subdirectories left out
ReadDirFilesOnly(p) ==
  LET present == SelectSeq(Names, LAMBDA n : Append(p, n) \in files)
  IN [i \in 1..Len(present) |-> Append(p, present[i])]

\* os.ReadDir(p): the entries of p, sorted by name
ReadDir(p) ==
  LET present == SelectSeq(Names, LAMBDA n : Append(p, n) \in dirs \cup files)
  IN [i \in 1..Len(present) |-> Append(p, present[i])]

\* what os.ReadDir(p) hands to WalkDir: the sorted entries; nothing when p
\* cannot be opened; with an error from f.ReadDir(-1), the entries read
\* before the error, sorted (WalkDir walks them after the callback has
\* logged the error)
Listings(p, readErr) ==
  IF p \notin dirs THEN {<<>>}
  ELSE IF ~readErr THEN {ReadDir(p)}
  ELSE LET all == ReadDir(p) IN
       {SelectSeq(all, LAMBDA e : e \in got) : got \in SUBSET {all[k] : k \in DOMAIN all}}

\* the slots of sem in use, as if a walker gave its slot back as it starts
RunningSlotsFreedAtStart == Cardinality({i \in 1..NRoots : wpc[i] = "start"})

\* the slots of sem in use: a walker holds its slot from sem <- struct{}{}
\* to the deferred <-sem
Running == Cardinality({i \in 1..NRoots : wpc[i] \notin {"none", "done"}})

\* the capacity of sem with cfg.Walkers taken as configured
WalkerSlotsAsConfigured == cfg.Walkers

\* if cfg.Walkers <= 0 { cfg.Walkers = 1 }; sem := make(chan struct{}, cfg.Walkers)
WalkerSlots == IF cfg.Walkers <= 0 THEN 1 ELSE cfg.Walkers

(***************************************************************************)
(* The clock                                                               *)
(***************************************************************************)
\* the wall clock reaches cfg.MaxRuntime
Tick ==
  /\ mpc \notin {"run", "rejected", "returned"}
  /\ elapsed < cfg.MaxRuntime
  /\ elapsed' = elapsed + 1
  /\ UNCHANGED <<lvars, cur, warned, ri, cfg, result, report, enq, waits, gate, today, files, dirs, bk, bkdirs, tmps, jobs, closed, processed,
                 deletedByFolder, firstErr, cancelled, mpc, mi, wpc, wtodo, ppc,
                 job, dstPath, attempt, handled, delLog, faults, copyErr>>

\* the calendar date changes while Run is under way: every Logger.Log and
\* every IsFileOlder reads time.Now() anew, from the first line Run logs to
\* the last entry of RemoveOldLogs
Midnight ==
  /\ cfg.SpansMidnight
  /\ rpc # "returned"
  /\ mpc # "rejected"
  /\ today = Clock[1]
  /\ today' = Clock[2]
  /\ UNCHANGED <<lvars, cur, warned, ri, cfg, result, report, enq, waits, gate, elapsed, files, dirs, bk, bkdirs, tmps, jobs, closed, processed,
                 deletedByFolder, firstErr, cancelled, mpc, mi, wpc, wtodo, ppc,
                 job, dstPath, attempt, handled, delLog, faults, copyErr>>

(***************************************************************************)
(* app.Run: the backup gate                                                *)
(***************************************************************************)
\* anyBackupEnabled, with "all" in place of "any"
allBackupEnabled == \A i \in 1..NRoots : Roots[i].Backup

\* anyBackupEnabled: some pathConfig has Backup set
anyBackupEnabled == \E i \in 1..NRoots : Roots[i].Backup

\* What CheckBackupPath can meet: os.Stat of the backup root fails ("missing",
\* "error"), finds a file or finds a directory; os.CreateTemp is attempted
\* in a directory only and os.Remove of the probe after a creation only.
GateOutcomes ==
  [kind : {"missing", "error", "file"}, createOK : {FALSE}, removeOK : {FALSE}]
    \cup [kind : {"dir"}, createOK : {FALSE}, removeOK : {FALSE}]
    \cup [kind : {"dir"}, createOK : {TRUE}, removeOK : BOOLEAN]

\* CheckBackupPath: the path exists, is a directory and a probe file can be
\* created in it; the results of f.Close and os.Remove are discarded
CheckBackupPath(kind, createOK, removeOK) == kind = "dir" /\ createOK

\* Run: the gate, then either the error return or the call of Worker
RunGate ==
  /\ rpc = "worker"
  /\ mpc = "run"
  /\ IF anyBackupEnabled
     THEN \E o \in GateOutcomes :
            LET ok == CheckBackupPath(o.kind, o.createOK, o.removeOK) IN
              /\ gate' = [calls |-> gate.calls + 1, kind |-> o.kind,
                          createOK |-> o.createOK, removeOK |-> o.removeOK,
                          ok |-> ok]
              /\ mpc' = IF ok THEN "loop" ELSE "rejected"
              /\ faults' = IF o.createOK /\ ~o.removeOK THEN faults + 1 ELSE faults
     ELSE /\ mpc' = "loop"
          /\ UNCHANGED <<gate, faults>>
  /\ Log(IF anyBackupEnabled THEN {"INFO"} ELSE {"INFO", "WARN"})
  /\ UNCHANGED <<lrest, cur, warned, ri, cfg, result, report, enq, waits, today, elapsed, files, dirs, bk, bkdirs, tmps, jobs, closed,
                 processed, deletedByFolder, firstErr, cancelled, mi, wpc, wtodo,
                 ppc, job, dstPath, attempt, handled, delLog, copyErr>>

(***************************************************************************)
(* Worker's own goroutine: the launch loop and the shutdown sequence       *)
(***************************************************************************)
\* for _, pathConfig := range pathConfigs { if shouldStop() { break } ...
MainLoop ==
  /\ mpc = "loop"
  /\ mpc' = IF mi > NRoots \/ shouldStop THEN "wait" ELSE "acquire"
  /\ UNCHANGED <<lvars, cur, warned, ri, cfg, result, report, enq, waits, gate, today, elapsed, files, dirs, bk, bkdirs, tmps, jobs, closed,
                 processed, deletedByFolder, firstErr, cancelled, mi, wpc, wtodo,
                 ppc, job, dstPath, attempt, handled, delLog, faults, copyErr>>

\* sem <- struct{}{}; walkWG.Add(1); go func() { ... }()
MainLaunch ==
  /\ mpc = "acquire"
  /\ Running < WalkerSlots
  /\ wpc' = [wpc EXCEPT ![mi] = "start"]
  /\ mi' = mi + 1
  /\ mpc' = "loop"
  /\ UNCHANGED <<lvars, cur, warned, ri, cfg, result, report, enq, waits, gate, today, elapsed, files, dirs, bk, bkdirs, tmps, jobs, closed,
                 processed, deletedByFolder, firstErr, cancelled, wtodo, ppc, job,
                 dstPath, attempt, handled, delLog, faults, copyErr>>

\* MainClose without the wait for the walkers
MainCloseWithoutWait ==
  /\ mpc = "wait"
  /\ closed' = TRUE
  /\ mpc' = "procwait"
  /\ UNCHANGED <<lvars, cur, warned, ri, cfg, result, report, enq, waits, gate, today, elapsed, files, dirs, bk, bkdirs, tmps, jobs, processed,
                 deletedByFolder, firstErr, cancelled, mi, wpc, wtodo, ppc, job,
                 dstPath, attempt, handled, delLog, faults, copyErr>>

\* walkWG.Wait(); close(jobs)
MainClose ==
  /\ mpc = "wait"
  /\ \A i \in 1..NRoots : wpc[i] \in {"none", "done"}
  /\ closed' = TRUE
  /\ mpc' = "procwait"
  /\ UNCHANGED <<lvars, cur, warned, ri, cfg, result, report, enq, waits, gate, today, elapsed, files, dirs, bk, bkdirs, tmps, jobs, processed,
                 deletedByFolder, firstErr, cancelled, mi, wpc, wtodo, ppc, job,
                 dstPath, attempt, handled, delLog, faults, copyErr>>

\* types.PathConfig.IsDir as the configuration loader sets it: true unless
\* os.Stat of the path succeeds on a non-directory
PathIsDir(path) == path \notin InitFiles \ Links

\* deletedByFolder[path], zero for a key the map does not hold
Count(path) == IF path \in DOMAIN deletedByFolder THEN deletedByFolder[path] ELSE 0

\* one pass of the final reporting loop, for pathConfig i: a count line for
\* a directory path, a "File deleted" line for a file path whose count is
\* positive, nothing for another file path
ReportLine(i) ==
  IF PathIsDir(Roots[i].Path)
  THEN {[line |-> "count", path |-> Roots[i].Path, n |-> Count(Roots[i].Path)]}
  ELSE IF Count(Roots[i].Path) > 0
       THEN {[line |-> "file", path |-> Roots[i].Path, n |-> Count(Roots[i].Path)]}
       ELSE {}

\* Worker's return value with a failed filesystem call reported as an error
WorkerResultFailsOnFault == IF firstErr # <<>> \/ faults > 0 THEN "error" ELSE "nil"

\* what Worker returns: the error firstErr holds if any, else nil.
\* firstErr.Store is at part_009:359, in the branch for an error of
\* filepath.WalkDir other than context.Canceled.  WalkDir returns what the
\* callback returns, and the callback returns nil or context.Canceled, so no
\* run takes the branch: firstErr stays empty, and cancel() (361) is called
\* by the deferred call alone, when every goroutine has exited.
WorkerResult == IF firstErr # <<>> THEN "error" ELSE "nil"

\* procWG.Wait(); perFolderMu.Lock()
MainWait ==
  /\ mpc = "procwait"
  /\ ppc = "done"
  /\ mpc' = "report"
  /\ ri' = 1
  /\ UNCHANGED <<lvars, cur, warned, cfg, result, report, enq, waits, gate, today, elapsed, files, dirs, bk, bkdirs, tmps, jobs, closed,
                 processed, deletedByFolder, firstErr, cancelled, mi, wpc, wtodo, ppc, job,
                 dstPath, attempt, handled, delLog, faults, copyErr>>

\* for _, pathConfig := range pathConfigs: one log.Countf or log.Successf
MainReport ==
  /\ mpc = "report"
  /\ ri <= NRoots
  /\ report' = report \cup ReportLine(ri)
  /\ Log(IF PathIsDir(Roots[ri].Path) THEN {"COUNT"}
         ELSE IF Count(Roots[ri].Path) > 0 THEN {"SUCCESS"} ELSE {})
  /\ ri' = ri + 1
  /\ UNCHANGED <<lrest, cur, warned, cfg, result, enq, waits, gate, today, elapsed, files, dirs, bk, bkdirs, tmps, jobs, closed,
                 processed, mpc, deletedByFolder, firstErr, cancelled, mi, wpc, wtodo, ppc, job,
                 dstPath, attempt, handled, delLog, faults, copyErr>>

\* the loop is over: perFolderMu.Unlock(); the return of firstErr's error;
\* the Warnf for the runtime limit when time.Since(start) has reached it
MainWarnRuntime ==
  /\ mpc = "report"
  /\ ri > NRoots
  /\ IF WorkerResult = "error"
     THEN /\ result' = "error"
          /\ mpc' = "returned"
          /\ UNCHANGED <<warned, logfiles>>
     ELSE /\ mpc' = "warn"
          /\ warned' = IF cfg.MaxRuntime > 0 /\ elapsed >= cfg.MaxRuntime
                        THEN warned \cup {"max runtime"} ELSE warned
          /\ Log(IF cfg.MaxRuntime > 0 /\ elapsed >= cfg.MaxRuntime THEN {"WARN"} ELSE {})
          /\ UNCHANGED result
  /\ UNCHANGED <<lrest, cur, ri, cfg, report, enq, waits, gate, today, elapsed, files, dirs, bk, bkdirs, tmps, jobs, closed,
                 processed, deletedByFolder, firstErr, cancelled, mi, wpc, wtodo, ppc, job,
                 dstPath, attempt, handled, delLog, faults, copyErr>>

\* the Warnf for the file limit when processed has reached it; return nil
MainReturn ==
  /\ mpc = "warn"
  /\ warned' = IF cfg.MaxFiles > 0 /\ processed >= cfg.MaxFiles
                THEN warned \cup {"max files"} ELSE warned
  /\ Log(IF cfg.MaxFiles > 0 /\ processed >= cfg.MaxFiles THEN {"WARN"} ELSE {})
  /\ result' = "nil"
  /\ mpc' = "returned"
  /\ UNCHANGED <<lrest, cur, ri, cfg, report, enq, waits, gate, today, elapsed, files, dirs, bk, bkdirs, tmps, jobs, closed,
                 processed, deletedByFolder, firstErr, cancelled, mi, wpc, wtodo, ppc, job,
                 dstPath, attempt, handled, delLog, faults, copyErr>>

(***************************************************************************)
(* Walkers: one goroutine per pathConfig, i is its index                   *)
(***************************************************************************)
FileJob(src, root, backup) == [srcPath |-> src, folderRoot |-> root, backup |-> backup]

\* PendingJob with the file root's own path as folderRoot
PendingJobRootAsFolder(i) ==
  IF wpc[i] = "enqfile"
  THEN FileJob(Roots[i].Path, Roots[i].Path, Roots[i].Backup)
  ELSE FileJob(Head(wtodo[i]), Roots[i].Path, Roots[i].Backup)

\* the job walker i is about to enqueue
PendingJob(i) ==
  IF wpc[i] = "enqfile"
  THEN FileJob(Roots[i].Path, Dir(Roots[i].Path), Roots[i].Backup)
  ELSE FileJob(Head(wtodo[i]), Roots[i].Path, Roots[i].Backup)

\* a per-entry error of the walk that the callback logs and passes over
\* although the entry is there: os.ReadDir cannot open a directory (WalkDir
\* reports it by a second call of the callback), or d.Info() of a file that
\* os.ReadDir listed fails.  The entry WalkDir makes from os.Lstat of its
\* root holds the FileInfo, so its Info() cannot fail.
WalkOutcomes(i, p) ==
  IF faults < MaxFaults /\ (p \in dirs \/ (p \in files /\ p # Roots[i].Path))
  THEN BOOLEAN ELSE {FALSE}

\* d.Info() of a listed file that has left the disk since os.ReadDir.  Where
\* the entry carries the name alone, Info() calls os.Lstat and fails
\* ("error"); where the listing delivered the file's data with the name (on
\* Windows, the platform the tool is written for), Info() returns the data of
\* the listing ("ok").  No layout lets a run meet two such entries, so every
\* run is of one kind.
InfoOutcomes(p) ==
  IF p \in files \cup InitDirs THEN {"ok"} ELSE {"ok", "error"}

\* goroutine start: ctx.Err(), os.Stat(folder), the single-file branch up to
\* its select.  os.Stat follows a symbolic link, so fi.IsDir() holds for Link.
WalkerStart(i) ==
  /\ wpc[i] = "start"
  /\ LET folder == Roots[i].Path IN
       IF cancelled \/ folder \notin files \cup dirs
       THEN wpc' = [wpc EXCEPT ![i] = "done"] /\ UNCHANGED wtodo
       ELSE IF folder \in files \ Links
            THEN /\ wpc' = [wpc EXCEPT ![i] =
                              IF IsFileOlder(MTime(folder), cfg.Days) THEN "enqfile" ELSE "done"]
                 /\ UNCHANGED wtodo
            ELSE /\ wpc' = [wpc EXCEPT ![i] = "walk"]
                 /\ wtodo' = [wtodo EXCEPT ![i] = <<folder>>]
  /\ Log(IF cancelled THEN {}
         ELSE IF Roots[i].Path \notin files \cup dirs THEN {"ERROR"}
         ELSE IF Roots[i].Path \in files \ Links THEN {}
         ELSE {"INFO"})
  /\ UNCHANGED <<lrest, cur, warned, ri, cfg, result, report, enq, waits, gate, today, elapsed, files, dirs, bk, bkdirs, tmps, jobs, closed,
                 processed, deletedByFolder, firstErr, cancelled, mpc, mi, ppc, job,
                 dstPath, attempt, handled, delLog, faults, copyErr>>

\* one call of the WalkDir callback, with WalkDir's own os.ReadDir for a
\* directory.  WalkDir reads its root with os.Lstat and follows no symbolic
\* link, so a root that is a link is handed to the callback as a
\* non-directory entry whose Info() is that of the link.  When os.Lstat of
\* the root fails, the callback is called with the error: `if err != nil'
\* comes before the tests of ctx.Err() and shouldStop(), the error is logged
\* and WalkDir returns nil.
WalkerVisit(i) ==
  /\ wpc[i] = "walk"
  /\ wtodo[i] # <<>>
  /\ LET p == Head(wtodo[i]) IN
       IF p = Roots[i].Path /\ p \notin dirs \cup files
       THEN /\ wtodo' = [wtodo EXCEPT ![i] = Tail(wtodo[i])]
            /\ Log({"ERROR"})
            /\ UNCHANGED <<wpc, faults>>
       ELSE IF cancelled \/ shouldStop
       THEN /\ wpc' = [wpc EXCEPT ![i] = "done"]
            /\ Log({"INFO"})
            /\ UNCHANGED <<wtodo, faults>>
       ELSE \E walkErr \in WalkOutcomes(i, p), info \in InfoOutcomes(p) :
            /\ faults' = IF walkErr THEN faults + 1 ELSE faults
            /\ Log(IF walkErr \/ info = "error" \/ (p \in InitDirs /\ p \notin dirs)
                   THEN {"ERROR"} ELSE {})
            /\ IF p \in InitDirs
               THEN /\ \E entries \in Listings(p, walkErr) :
                         wtodo' = [wtodo EXCEPT ![i] = entries \o Tail(wtodo[i])]
                    /\ UNCHANGED wpc
               ELSE IF info = "ok" /\ ~walkErr /\ IsFileOlder(MTime(p), cfg.Days)
                    THEN wpc' = [wpc EXCEPT ![i] = "enq"] /\ UNCHANGED wtodo
                    ELSE wtodo' = [wtodo EXCEPT ![i] = Tail(wtodo[i])] /\ UNCHANGED wpc
  /\ UNCHANGED <<lrest, cur, warned, ri, cfg, result, report, enq, waits, gate, today, elapsed, files, dirs, bk, bkdirs, tmps, jobs, closed,
                 processed, deletedByFolder, firstErr, cancelled, mpc, mi, ppc, job,
                 dstPath, attempt, handled, delLog, copyErr>>

\* select arm: jobs <- FileJob{...} (the arm <-ctx.Done() is never ready:
\* ctx is not done while a walker runs)
WalkerEnqueue(i) ==
  /\ wpc[i] \in {"enq", "enqfile"}
  /\ Len(jobs) < cfg.QueueSize
  /\ jobs' = Append(jobs, PendingJob(i))
  /\ enq' = [enq EXCEPT ![i] = @ + 1]
  /\ IF wpc[i] = "enqfile"
     THEN wpc' = [wpc EXCEPT ![i] = "done"] /\ UNCHANGED wtodo
     ELSE /\ wpc' = [wpc EXCEPT ![i] = "walk"]
          /\ wtodo' = [wtodo EXCEPT ![i] = Tail(wtodo[i])]
  /\ Log(IF wpc[i] = "enqfile" THEN {"INFO"} ELSE {})
  /\ UNCHANGED <<lrest, cur, warned, ri, cfg, result, report, waits, gate, today, elapsed, files, dirs, bk, bkdirs, tmps, closed, processed,
                 deletedByFolder, firstErr, cancelled, mpc, mi, ppc, job, dstPath,
                 attempt, handled, delLog, faults, copyErr>>

\* WalkerFinish with the walker removing the folder it walked when it is empty
WalkerFinishRemovesFolder(i) ==
  /\ wpc[i] = "walk"
  /\ wtodo[i] = <<>>
  /\ wpc' = [wpc EXCEPT ![i] = "done"]
  /\ dirs' = IF isDirEmpty(Roots[i].Path, dirs, files) THEN dirs \ {Roots[i].Path} ELSE dirs
  /\ Log({"INFO"})
  /\ UNCHANGED <<lrest, cur, warned, ri, cfg, result, report, enq, waits, gate, today, elapsed, files, bk, bkdirs, tmps, jobs, closed,
                 processed, deletedByFolder, firstErr, cancelled, mpc, mi, wtodo,
                 ppc, job, dstPath, attempt, handled, delLog, faults, copyErr>>

\* WalkDir returned nil: "Finished walking folder"
WalkerFinish(i) ==
  /\ wpc[i] = "walk"
  /\ wtodo[i] = <<>>
  /\ wpc' = [wpc EXCEPT ![i] = "done"]
  /\ Log({"INFO"})
  /\ UNCHANGED <<lrest, cur, warned, ri, cfg, result, report, enq, waits, gate, today, elapsed, files, dirs, bk, bkdirs, tmps, jobs, closed,
                 processed, deletedByFolder, firstErr, cancelled, mpc, mi, wtodo,
                 ppc, job, dstPath, attempt, handled, delLog, faults, copyErr>>

(***************************************************************************)
(* The copy layer                                                          *)
(***************************************************************************)
\* the step of copyfileStream that fails ("none": the copy succeeds)
CopySteps == {"none", "mkdir", "open_src", "open_tmp", "copy", "close", "rename"}

\* the failing steps possible for a source: a missing source cannot be opened
\* and reading a directory (a link to one) fails
PossibleSteps(srcPath) ==
  IF srcPath \notin files THEN {"open_src"}
  ELSE IF srcPath \in Links THEN {"copy"}
  ELSE IF faults < MaxFaults THEN CopySteps ELSE {"none"}

\* os.MkdirAll(p): p and every missing parent
MkdirAll(p) == bkdirs \cup {SubSeq(p, 1, k) : k \in 1..Len(p)}

\* copyfileStream(src, dst) failing at step `fail': the error and the
\* backup tree it leaves.  The deferred cleanup removes the temp file unless
\* closeOK was set, which happens before the rename.
copyfileStream(src, dst, fail) ==
  [ err  |-> fail # "none",
    bkdirs |-> IF fail = "mkdir" THEN bkdirs ELSE MkdirAll(Dir(dst)),
    bk   |-> IF fail = "none" THEN (dst :> src) @@ bk ELSE bk,
    tmps |-> CASE fail \in {"mkdir", "open_src", "open_tmp"} -> tmps
               [] fail \in {"copy", "close", "none"} -> tmps \ {dst}
               [] OTHER -> tmps \cup {dst} ]

(***************************************************************************)
(* Outcomes of the filesystem calls: a call fails for a reason of its own  *)
(* (permissions, a lock, the share) only while the budget of injected      *)
(* failures lasts.                                                         *)
(***************************************************************************)
MayFail == faults < MaxFaults

\* os.Stat(path) failing with an error other than "not exist"
StatOutcomes(path) ==
  IF MayFail /\ path \notin DOMAIN bk \cup bkdirs THEN BOOLEAN ELSE {FALSE}

\* os.Remove(srcPath) failing although the file is there
RemoveOutcomes(src) ==
  IF MayFail /\ src \in files THEN BOOLEAN ELSE {FALSE}

\* cleanupEmptyDirs: os.ReadDir or os.Remove failing on an empty directory
CleanupOutcomes(d, stopDir) ==
  IF MayFail /\ ~samePath(d, stopDir) /\ d \in dirs /\ isDirEmpty(d, dirs, files)
  THEN BOOLEAN ELSE {FALSE}

(***************************************************************************)
(* The processor goroutine                                                 *)
(***************************************************************************)
\* the receive taking the job sent last
ProcDequeueNewest ==
  /\ ppc = "dequeue"
  /\ jobs # <<>>
  /\ job' = jobs[Len(jobs)]
  /\ jobs' = SubSeq(jobs, 1, Len(jobs) - 1)
  /\ ppc' = "check"
  /\ UNCHANGED <<lvars, cur, warned, ri, cfg, result, report, enq, waits, gate, today, elapsed, files, dirs, bk, bkdirs, tmps, closed, processed,
                 deletedByFolder, firstErr, cancelled, mpc, mi, wpc, wtodo, dstPath,
                 attempt, handled, delLog, faults, copyErr>>

\* for job := range jobs: receive
ProcDequeue ==
  /\ ppc = "dequeue"
  /\ jobs # <<>>
  /\ job' = Head(jobs)
  /\ jobs' = Tail(jobs)
  /\ ppc' = "check"
  /\ UNCHANGED <<lvars, cur, warned, ri, cfg, result, report, enq, waits, gate, today, elapsed, files, dirs, bk, bkdirs, tmps, closed, processed,
                 deletedByFolder, firstErr, cancelled, mpc, mi, wpc, wtodo, dstPath,
                 attempt, handled, delLog, faults, copyErr>>

\* for job := range jobs: the channel is closed and drained
ProcDrained ==
  /\ ppc = "dequeue"
  /\ jobs = <<>>
  /\ closed
  /\ ppc' = "done"
  /\ UNCHANGED <<lvars, cur, warned, ri, cfg, result, report, enq, waits, gate, today, elapsed, files, dirs, bk, bkdirs, tmps, jobs, closed,
                 processed, deletedByFolder, firstErr, cancelled, mpc, mi, wpc,
                 wtodo, job, dstPath, attempt, handled, delLog, faults, copyErr>>

\* ProcStop with the job that met the stop check counted as processed
ProcStopCounts ==
  /\ ppc = "check"
  /\ shouldStop
  /\ processed' = processed + 1
  /\ ppc' = "done"
  /\ Log({"INFO"})
  /\ UNCHANGED <<lrest, cur, warned, ri, cfg, result, report, enq, waits, gate, today, elapsed, files, dirs, bk, bkdirs, tmps, jobs, closed,
                 deletedByFolder, firstErr, cancelled, mpc, mi, wpc,
                 wtodo, job, dstPath, attempt, handled, delLog, faults, copyErr>>

\* if shouldStop() { return }
ProcStop ==
  /\ ppc = "check"
  /\ shouldStop
  /\ ppc' = "done"
  /\ Log({"INFO"})
  /\ UNCHANGED <<lrest, cur, warned, ri, cfg, result, report, enq, waits, gate, today, elapsed, files, dirs, bk, bkdirs, tmps, jobs, closed,
                 processed, deletedByFolder, firstErr, cancelled, mpc, mi, wpc,
                 wtodo, job, dstPath, attempt, handled, delLog, faults, copyErr>>

\* buildBackupPath, then the backup phase up to the call of copyFileWithRetry
ProcBegin ==
  /\ ppc = "check"
  /\ ~shouldStop
  /\ handled' = handled + 1
  /\ attempt' = 0
  /\ waits' = <<>>
  /\ copyErr' = "none"
  /\ LET d == buildBackupPath(BackupRoot, job.folderRoot, job.srcPath) IN
       /\ dstPath' = d.path
       /\ IF d.err
          THEN ppc' = "dequeue" /\ Log({"ERROR"}) /\ UNCHANGED faults
          ELSE IF job.backup
               THEN \E statErr \in StatOutcomes(d.path) :
                      /\ ppc' = IF DoesFileExist(d.path, statErr) THEN "delete" ELSE "copy"
                      /\ faults' = IF statErr THEN faults + 1 ELSE faults
                      /\ Log(IF DoesFileExist(d.path, statErr) THEN {"WARN"} ELSE {})
               ELSE ppc' = "delete" /\ Log({}) /\ UNCHANGED faults
  /\ UNCHANGED <<lrest, cur, warned, ri, cfg, result, report, enq, gate, today, elapsed, files, dirs, bk, bkdirs, tmps, jobs, closed,
                 processed, deletedByFolder, firstErr, cancelled, mpc, mi, wpc,
                 wtodo, job, delLog>>

\* the backup phase going on to the delete whatever copyFileWithRetry returned
AfterBackupAlwaysDeletes(err) == "delete"

\* Worker, after copyFileWithRetry returned err: "continue" on an error
\* (do NOT delete if backup failed), else on to the delete phase
AfterBackup(err) == IF err # "none" THEN "dequeue" ELSE "delete"

\* copyFileWithRetry: one pass of the loop up to the backoff select
ProcCopy ==
  /\ ppc = "copy"
  /\ IF cancelled
     THEN /\ copyErr' = "cancelled"
          /\ ppc' = AfterBackup("cancelled")
          /\ Log({"ERROR"})
          /\ UNCHANGED <<bk, bkdirs, tmps, faults>>
     ELSE \E fail \in PossibleSteps(job.srcPath) :
            LET r == copyfileStream(job.srcPath, dstPath, fail) IN
              /\ bk' = r.bk
              /\ bkdirs' = r.bkdirs
              /\ tmps' = r.tmps
              /\ faults' = IF r.err /\ job.srcPath \in files \ Links
                            THEN faults + 1 ELSE faults
              /\ IF ~r.err
                 THEN copyErr' = "none" /\ ppc' = AfterBackup("none")
                 ELSE IF attempt < cfg.Retries
                      THEN copyErr' = copyErr /\ ppc' = "backoff"
                      ELSE copyErr' = "failed" /\ ppc' = AfterBackup("failed")
              /\ Log(IF ~r.err THEN {"SUCCESS"}
                     ELSE IF attempt < cfg.Retries THEN {"WARN"} ELSE {"ERROR"})
  /\ UNCHANGED <<lrest, cur, warned, ri, cfg, result, report, enq, waits, gate, today, elapsed, files, dirs, jobs, closed, processed,
                 deletedByFolder, firstErr, cancelled, mpc, mi, wpc, wtodo, job,
                 dstPath, attempt, handled, delLog>>

\* select arm: <-time.After(backoff); continue (the arm <-ctx.Done() is
\* never ready: ctx is not done while the processor runs)
ProcBackoff ==
  /\ ppc = "backoff"
  /\ waits' = Append(waits, backoffForAttempt(attempt))
  /\ attempt' = attempt + 1
  /\ ppc' = "copy"
  /\ UNCHANGED <<lvars, cur, warned, ri, cfg, result, report, enq, gate, today, elapsed, files, dirs, bk, bkdirs, tmps, jobs, closed,
                 processed, deletedByFolder, firstErr, cancelled, mpc, mi, wpc,
                 wtodo, job, dstPath, handled, delLog, faults, copyErr>>

\* the per-folder count with the delete counted for every folder
CountDeleteEverywhere(counts, folderRoot) == [d \in DOMAIN counts |-> counts[d] + 1]

\* perFolderMu.Lock(); deletedByFolder[job.folderRoot]++; perFolderMu.Unlock()
CountDelete(counts, folderRoot) == [counts EXCEPT ![folderRoot] = @ + 1]

\* ProcDelete with os.Remove of a file that is gone taken as a success
ProcDeleteCountsMissing ==
  /\ ppc = "delete"
  /\ \E removeErr \in RemoveOutcomes(job.srcPath) :
       IF removeErr
       THEN /\ faults' = faults + 1
            /\ ppc' = "processed"
            /\ Log({"ERROR"})
            /\ UNCHANGED <<files, delLog>>
       ELSE /\ files' = files \ {job.srcPath}
            /\ delLog' = delLog \cup {[job |-> job, dst |-> dstPath]}
            /\ ppc' = "count"
            /\ Log({"SUCCESS"})
            /\ UNCHANGED faults
  /\ UNCHANGED <<lrest, warned, ri, cfg, result, report, enq, waits, gate, today, elapsed, bk, bkdirs, tmps, jobs, closed, firstErr, cancelled,
                 mpc, mi, wpc, wtodo, job, dstPath, attempt, handled, copyErr, cur, dirs, deletedByFolder, processed>>

\* DeleteFile(job.srcPath) and the line logged for its outcome
ProcDelete ==
  /\ ppc = "delete"
  /\ \E removeErr \in RemoveOutcomes(job.srcPath) :
       IF removeErr \/ job.srcPath \notin files
       THEN /\ faults' = IF removeErr THEN faults + 1 ELSE faults
            /\ ppc' = "processed"
            /\ Log({"ERROR"})
            /\ UNCHANGED <<files, delLog>>
       ELSE /\ files' = files \ {job.srcPath}
            /\ delLog' = delLog \cup {[job |-> job, dst |-> dstPath]}
            /\ ppc' = "count"
            /\ Log({"SUCCESS"})
            /\ UNCHANGED faults
  /\ UNCHANGED <<lrest, warned, ri, cfg, result, report, enq, waits, gate, today, elapsed, bk, bkdirs, tmps, jobs, closed, firstErr, cancelled,
                 mpc, mi, wpc, wtodo, job, dstPath, attempt, handled, copyErr, cur, dirs, deletedByFolder, processed>>

\* perFolderMu.Lock(); deletedByFolder[job.folderRoot]++; perFolderMu.Unlock(),
\* and the entry of cleanupEmptyDirs(filepath.Dir(job.srcPath), job.folderRoot)
ProcCount ==
  /\ ppc = "count"
  /\ deletedByFolder' = CountDelete(deletedByFolder, job.folderRoot)
  /\ cur' = Dir(job.srcPath)
  /\ ppc' = "cleanup"
  /\ UNCHANGED <<lvars, warned, ri, cfg, result, report, enq, waits, gate, today, elapsed, bk, bkdirs, tmps, jobs, closed, firstErr, cancelled,
                 mpc, mi, wpc, wtodo, job, dstPath, attempt, handled, copyErr, files, dirs, delLog, faults, processed>>

\* one pass of the loop of cleanupEmptyDirs: return at stopDir, at a directory
\* that cannot be read or is not empty and at a failed os.Remove; otherwise
\* remove cur and move one level up
cleanupEmptyDirs ==
  /\ ppc = "cleanup"
  /\ \E fail \in CleanupOutcomes(cur, job.folderRoot) :
       IF \/ samePath(cur, job.folderRoot)
          \/ cur \notin dirs
          \/ ~isDirEmpty(cur, dirs, files)
          \/ fail
       THEN /\ faults' = IF fail THEN faults + 1 ELSE faults
            /\ cur' = <<>>
            /\ ppc' = "processed"
            /\ UNCHANGED <<dirs, logfiles>>
       ELSE /\ dirs' = dirs \ {cur}
            /\ cur' = Dir(cur)
            /\ Log({"INFO"})
            /\ UNCHANGED <<faults, ppc>>
  /\ UNCHANGED <<lrest, warned, ri, cfg, result, report, enq, waits, gate, today, elapsed, bk, bkdirs, tmps, jobs, closed, firstErr, cancelled,
                 mpc, mi, wpc, wtodo, job, dstPath, attempt, handled, copyErr, files, deletedByFolder, delLog, processed>>

\* atomic.AddUint64(&processed, 1); the cooldown follows when one is configured
ProcProcessed ==
  /\ ppc = "processed"
  /\ processed' = processed + 1
  /\ ppc' = IF cfg.Cooldown > 0 THEN "cooldown" ELSE "dequeue"
  /\ UNCHANGED <<lvars, warned, ri, cfg, result, report, enq, waits, gate, today, elapsed, bk, bkdirs, tmps, jobs, closed, firstErr, cancelled,
                 mpc, mi, wpc, wtodo, job, dstPath, attempt, handled, copyErr, cur, files, dirs, deletedByFolder, delLog, faults>>

\* select arm: <-time.After(cfg.Cooldown) (the arm <-ctx.Done() is never
\* ready: ctx is not done while the processor runs)
ProcCooldown ==
  /\ ppc = "cooldown"
  /\ ppc' = "dequeue"
  /\ UNCHANGED <<lvars, cur, warned, ri, cfg, result, report, enq, waits, gate, today, elapsed, files, dirs, bk, bkdirs, tmps, jobs, closed,
                 processed, deletedByFolder, firstErr, cancelled, mpc, mi, wpc,
                 wtodo, job, dstPath, attempt, handled, delLog, faults, copyErr>>

(***************************************************************************)
(* Specification                                                           *)
(***************************************************************************)
Next ==
  \/ RunGate
  \/ Tick
  \/ Midnight
  \/ MainLoop
  \/ MainLaunch
  \/ MainClose
  \/ MainWait
  \/ MainReport
  \/ MainWarnRuntime
  \/ MainReturn
  \/ \E i \in 1..NRoots : WalkerStart(i)
  \/ \E i \in 1..NRoots : WalkerVisit(i)
  \/ \E i \in 1..NRoots : WalkerEnqueue(i)
  \/ \E i \in 1..NRoots : WalkerFinish(i)
  \/ ProcDequeue
  \/ ProcDrained
  \/ ProcStop
  \/ ProcBegin
  \/ ProcCopy
  \/ ProcBackoff
  \/ ProcDelete
  \/ ProcCount
  \/ cleanupEmptyDirs
  \/ ProcProcessed
  \/ ProcCooldown

Spec == Init /\ [][Next]_vars

(***************************************************************************)
(* Runs with several retries: Worker from its start, as in Spec, under     *)
(* configurations whose retry count goes beyond MaxRetries.  A source that *)
(* is gone when its copy is attempted (the same directory configured       *)
(* twice, the job without backup handled first) fails every attempt.       *)
(***************************************************************************)
ProcConfigs ==
  { c \in UNION { [ roots : {r},
                    Days : {5},
                    Walkers : 1..Len(r),
                    QueueSize : {1},
                    MaxFiles : {0, MaxFilesCap},
                    MaxRuntime : {0, 1},
                    Cooldown : {0, 1},
                    Retries : {MaxRetries, MaxRetries + 2},
                    SpansMidnight : BOOLEAN ] :
                  r \in { <<PathConfig(R1, TRUE)>>,
                          <<PathConfig(R2, TRUE), PathConfig(R2, FALSE)>> } } :
      /\ Cardinality({x \in {c.MaxFiles > 0, c.MaxRuntime > 0, c.Cooldown > 0,
                              c.SpansMidnight} : x}) <= 1
      /\ (c.MaxFiles > 0 \/ c.MaxRuntime > 0 \/ c.SpansMidnight) => c.Walkers = 1 }

ProcInit ==
  /\ LogInit
  /\ cfg \in ProcConfigs
  /\ gate = NoGate
  /\ today = Clock[1]
  /\ elapsed = 0
  /\ files = InitFiles
  /\ dirs = InitDirs
  /\ bk = <<>>
  /\ bkdirs = {}
  /\ tmps = {}
  /\ jobs = <<>>
  /\ closed = FALSE
  /\ processed = 0
  /\ deletedByFolder = [d \in InitDirs \cup Links |-> 0]
  /\ firstErr = <<>>
  /\ cancelled = FALSE
  /\ mpc = "run"
  /\ mi = 1
  /\ wpc = [i \in 1..NRoots |-> "none"]
  /\ wtodo = [i \in 1..NRoots |-> <<>>]
  /\ ppc = "dequeue"
  /\ job = NoJob
  /\ ri = 1
  /\ dstPath = <<>>
  /\ cur = <<>>
  /\ attempt = 0
  /\ copyErr = "none"
  /\ faults = 0
  /\ handled = 0
  /\ delLog = {}
  /\ enq = [i \in 1..NRoots |-> 0]
  /\ waits = <<>>
  /\ result = "none"
  /\ report = {}
  /\ warned = {}

ProcSpec == ProcInit /\ [][Next]_vars

(***************************************************************************)
(* app.Run after the gate: the call of Worker and the housekeeping, with   *)
(* RemoveOldLogs on the log directory.  The walkers and the processor have *)
(* exited and Worker is about to write its final report and return.       *)
(***************************************************************************)
\* os.ReadDir of the log tree with the entries of the subdirectories included
ReadLogDirRecursive(p) ==
  LET below == SelectSeq(LogNames,
                 LAMBDA n : \E q \in logdirs \cup logfiles :
                              IsUnder(q, p) /\ q[Len(q)] = n)
  IN [i \in 1..Len(below) |->
        CHOOSE q \in logdirs \cup logfiles : IsUnder(q, p) /\ q[Len(q)] = below[i]]

\* os.ReadDir(logPath): the entries directly inside p, sorted by name
ReadLogDir(p) ==
  LET present == SelectSeq(LogNames, LAMBDA n : Append(p, n) \in logdirs \cup logfiles)
  IN [i \in 1..Len(present) |-> Append(p, present[i])]

\* if err := maintenance.Worker(...); err != nil { return err }
\* if !cfg.LogSettings.NoLogs { ... RemoveOldLogs(...) ... }; return nil
RunAfterWorker ==
  /\ rpc = "worker"
  /\ mpc = "returned"
  /\ IF result = "error"
     THEN rpc' = "returned" /\ runres' = "error" /\ UNCHANGED prunes
     ELSE IF logcfg.NoLogs
          THEN rpc' = "returned" /\ runres' = "nil" /\ UNCHANGED prunes
          ELSE rpc' = "stat" /\ prunes' = prunes + 1 /\ UNCHANGED runres
  /\ UNCHANGED <<wvars, ini, logcfg, logfiles, logdirs, ltodo, rmfail>>

\* RemoveOldLogs up to its loop: os.Stat(logPath); on an error os.MkdirAll
\* and the return; "not a directory"; os.ReadDir.  statErr: os.Stat fails
\* although the path is there; mkdirOK, readOK: the results of os.MkdirAll
\* and os.ReadDir (os.MkdirAll cannot succeed over a regular file).
RemoveOldLogsStat ==
  /\ rpc = "stat"
  /\ \E statErr \in IF LogDir \in logdirs \cup logfiles THEN BOOLEAN ELSE {TRUE},
        mkdirOK \in IF LogDir \in logfiles THEN {FALSE} ELSE BOOLEAN,
        readOK \in BOOLEAN :
       IF statErr
       THEN /\ logdirs' = IF mkdirOK
                          THEN logdirs \cup {SubSeq(LogDir, 1, k) : k \in 1..Len(LogDir)}
                          ELSE logdirs
            /\ runres' = IF mkdirOK THEN "nil" ELSE "error"
            /\ rpc' = "returned"
            /\ UNCHANGED ltodo
       ELSE IF LogDir \notin logdirs \/ ~readOK
            THEN /\ runres' = "error"
                 /\ rpc' = "returned"
                 /\ UNCHANGED <<logdirs, ltodo>>
            ELSE /\ ltodo' = ReadLogDir(LogDir)
                 /\ rpc' = "entries"
                 /\ UNCHANGED <<logdirs, runres>>
  /\ UNCHANGED <<wvars, ini, logcfg, logfiles, rmfail, prunes>>

\* one pass of the loop over the entries: a directory is skipped; an entry
\* whose Info() fails is skipped; an entry older than the retention is
\* removed, and a failing os.Remove is passed over
RemoveOldLogsEntry ==
  /\ rpc = "entries"
  /\ ltodo # <<>>
  /\ LET full == Head(ltodo) IN
       \E infoErr \in BOOLEAN, removeErr \in BOOLEAN :
         /\ ltodo' = Tail(ltodo)
         /\ IF full \in logdirs \/ infoErr \/ full \notin logfiles
               \/ ~IsFileOlder(LogMTime(full), logcfg.LogRetention)
            THEN UNCHANGED <<logfiles, rmfail>>
            ELSE IF removeErr
                 THEN rmfail' = rmfail \cup {full} /\ UNCHANGED logfiles
                 ELSE logfiles' = logfiles \ {full} /\ UNCHANGED rmfail
  /\ UNCHANGED <<wvars, ini, logcfg, logdirs, rpc, runres, prunes>>

\* the loop is over: RemoveOldLogs returns nil, and so does Run
RemoveOldLogsReturn ==
  /\ rpc = "entries"
  /\ ltodo = <<>>
  /\ runres' = "nil"
  /\ rpc' = "returned"
  /\ UNCHANGED <<wvars, ini, logcfg, logfiles, logdirs, ltodo, rmfail, prunes>>

\* the runs over C:\r1 whose housekeeping is followed
PruneConfigs ==
  [ roots : {<<PathConfig(R1, TRUE)>>},
    Days : {5},
    Walkers : {1},
    QueueSize : {1},
    MaxFiles : {0},
    MaxRuntime : {0},
    Cooldown : {0},
    Retries : {0},
    SpansMidnight : BOOLEAN ]

\* The two ways RemoveOldLogs is reached.  "Run": CheckBackupPath accepted
\* the backup root, the walker of C:\r1 could
\* not read its root (os.ReadDir failed and listed nothing), sent no job and
\* exited, the processor found the queue closed and empty, and Worker is
\* about to write its final report and return; with file logging logging.New
\* has made LogDir a directory and the run has written the maintenance log
\* and the errors log of the day.  "RemoveOldLogs": the exported function is
\* called on a log path in any condition, missing or a regular file included.
PruneInit ==
  /\ cfg \in PruneConfigs
  /\ today = Clock[1]
  /\ elapsed = 0
  /\ files = InitFiles
  /\ dirs = InitDirs
  /\ bk = <<>>
  /\ bkdirs = {}
  /\ tmps = {}
  /\ jobs = <<>>
  /\ processed = 0
  /\ deletedByFolder = [d \in InitDirs \cup Links |-> 0]
  /\ wtodo = [i \in 1..NRoots |-> <<>>]
  /\ job = NoJob
  /\ ri = 1
  /\ dstPath = <<>>
  /\ cur = <<>>
  /\ attempt = 0
  /\ copyErr = "none"
  /\ handled = 0
  /\ delLog = {}
  /\ enq = [i \in 1..NRoots |-> 0]
  /\ waits = <<>>
  /\ result = "none"
  /\ report = {}
  /\ warned = {}
  /\ ini = LoadedIni
  /\ logcfg \in LogConfigs
  /\ ltodo = <<>>
  /\ runres = "none"
  /\ rmfail = {}
  /\ \E l \in LogLayouts, call \in {"Run", "RemoveOldLogs"} :
       /\ logdirs = l.dirs
       /\ IF call = "Run"
          THEN /\ logcfg.NoLogs \/ LogDir \in l.dirs
               /\ logfiles = IF logcfg.NoLogs THEN l.files
                             ELSE l.files \cup {MaintenanceLog(today), ErrorLog(today)}
               /\ closed = TRUE
               /\ firstErr = <<>>
               /\ cancelled = FALSE
               /\ faults = 1
               /\ gate = [calls |-> 1, kind |-> "dir", createOK |-> TRUE,
                          removeOK |-> TRUE, ok |-> TRUE]
               /\ mpc = "procwait"
               /\ mi = NRoots + 1
               /\ wpc = [i \in 1..NRoots |-> "done"]
               /\ ppc = "done"
               /\ rpc = "worker"
               /\ prunes = 0
          ELSE /\ ~logcfg.NoLogs
               /\ logfiles = l.files
               /\ closed = FALSE
               /\ firstErr = <<>>
               /\ cancelled = FALSE
               /\ faults = 0
               /\ gate = NoGate
               /\ mpc = "run"
               /\ mi = 1
               /\ wpc = [i \in 1..NRoots |-> "none"]
               /\ ppc = "dequeue"
               /\ rpc = "stat"
               /\ prunes = 1

PruneNext ==
  \/ Midnight
  \/ MainWait
  \/ MainReport
  \/ MainWarnRuntime
  \/ MainReturn
  \/ RunAfterWorker
  \/ RemoveOldLogsStat
  \/ RemoveOldLogsEntry
  \/ RemoveOldLogsReturn

PruneSpec == PruneInit /\ [][PruneNext]_vars

(***************************************************************************)
(* app.Run as a whole: config.ReadAllConfig, the gate, Worker and the      *)
(* housekeeping, on runs over C:\r2 and C:\r1\Sub\deep.                    *)
(***************************************************************************)
\* ReadAllConfig: the error it returns for the parsed config.ini ("none": it
\* returns the pathConfigs and the backup path)
ReadAllConfig(i) ==
  IF ~i.section THEN "missing [backup] section"
  ELSE IF i.path = <<>> THEN "missing 'path' key"
  ELSE "none"

\* pathConfigs, backupLocation, err := config.ReadAllConfig(...)
\* if err != nil { return err }
RunLoad ==
  /\ rpc = "load"
  /\ IF ReadAllConfig(ini) # "none"
     THEN rpc' = "returned" /\ runres' = "error" /\ UNCHANGED logfiles
     ELSE rpc' = "worker" /\ Log({"INFO"}) /\ UNCHANGED runres
  /\ UNCHANGED <<wvars, ini, logcfg, logdirs, ltodo, rmfail, prunes>>

RunRootLists ==
  { <<PathConfig(R2, FALSE)>>,
    <<PathConfig(R2, TRUE)>>,
    <<PathConfig(R1Deep, FALSE), PathConfig(R2, FALSE)>>,
    <<PathConfig(R1Deep, FALSE), PathConfig(R2, TRUE)>> }

RunConfigs ==
  UNION { [ roots : {r},
            Days : {5},
            Walkers : {Len(r)},
            QueueSize : {1},
            MaxFiles : {0},
            MaxRuntime : {0, 1},
            Cooldown : {1},
            Retries : {MaxRetries},
            SpansMidnight : BOOLEAN ] : r \in RunRootLists }

RunInit ==
  /\ cfg \in RunConfigs
  /\ gate = NoGate
  /\ today = Clock[1]
  /\ elapsed = 0
  /\ files = InitFiles
  /\ dirs = InitDirs
  /\ bk = <<>>
  /\ bkdirs = {}
  /\ tmps = {}
  /\ jobs = <<>>
  /\ closed = FALSE
  /\ processed = 0
  /\ deletedByFolder = [d \in InitDirs \cup Links |-> 0]
  /\ firstErr = <<>>
  /\ cancelled = FALSE
  /\ mpc = "run"
  /\ mi = 1
  /\ wpc = [i \in 1..NRoots |-> "none"]
  /\ wtodo = [i \in 1..NRoots |-> <<>>]
  /\ ppc = "dequeue"
  /\ job = NoJob
  /\ ri = 1
  /\ dstPath = <<>>
  /\ cur = <<>>
  /\ attempt = 0
  /\ copyErr = "none"
  /\ faults = 0
  /\ handled = 0
  /\ delLog = {}
  /\ enq = [i \in 1..NRoots |-> 0]
  /\ waits = <<>>
  /\ result = "none"
  /\ report = {}
  /\ warned = {}
  /\ ini \in IniFiles
  /\ logcfg \in {c \in LogConfigs : c.LogRetention = 5}
  /\ logfiles = {LogOld, LogCut, LogNew, LogSubOld}
  /\ logdirs = {<<"C:">>, LogDir, LogSub}
  /\ rpc = "load"
  /\ ltodo = <<>>
  /\ runres = "none"
  /\ rmfail = {}
  /\ prunes = 0

RunNext ==
  \/ RunLoad
  \/ Next
  \/ RunAfterWorker
  \/ RemoveOldLogsStat
  \/ RemoveOldLogsEntry
  \/ RemoveOldLogsReturn

RunSpec == RunInit /\ [][RunNext]_vars

(***************************************************************************)
(* Properties                                                              *)
(***************************************************************************)
\* the destinations a run can compute a backup under
LabelDirs == {BackupRoot \o <<DateLabel(Clock[k])>> : k \in DOMAIN Clock}

RemovedFiles == InitFiles \ files
RemovedDirs == InitDirs \ dirs

\* C1: the source of a backup-enabled job is removed only when a file exists at
\* the job's destination at the moment of the delete, whatever the copy
\* attempts and the destination-existence probe returned.  (Backup files are
\* never removed during a run, so "exists at the delete" is "exists since".)
DeleteOnlyWithFileAtDest ==
  \A e \in delLog : e.job.backup => e.dst \in DOMAIN bk

\* C2: Worker always terminates: whenever it has not returned, some goroutine
\* can take a step (no goroutine is blocked for ever; every run of the model
\* is finite, so a run that cannot stop short of the return reaches it).
WorkerTerminates == mpc \in {"rejected", "returned"} \/ ENABLED Next

\* C3: whenever a backup-enabled source file has been deleted, the file at its
\* destination is a copy of that very source file.  (Stated for the runs in
\* which no filesystem call failed, so that it speaks of the destination
\* mapping alone.)
BackupIsCopyOfDeleted ==
  faults = 0 =>
    \A e \in delLog :
      (e.job.backup /\ e.dst \in DOMAIN bk) => bk[e.dst] = e.job.srcPath

\* C4: processed is incremented exactly once for every job the processor
\* handles (every job that passed the stop check), whatever the outcome:
\* between two jobs the counter equals the number of jobs handled.
ProcessedCountsEveryHandledJob ==
  ppc \in {"dequeue", "cooldown", "done"} => processed = handled

\* C5: when copy-with-retry returns failure for a job (attempts exhausted or
\* cancellation observed), the processor takes the next job: no source file is
\* removed, deletedByFolder is unchanged and no directory is reclaimed.
\* The step that returns the failure leads back to the queue, and from then
\* until the next job is begun nothing is deleted, counted or reclaimed.
CopyFailureSkipsDelete ==
  [][ /\ (ppc \in {"copy", "backoff"} /\ copyErr' # "none")
          => /\ ppc' = "dequeue"
             /\ files' = files
             /\ dirs' = dirs
             /\ deletedByFolder' = deletedByFolder
      /\ (copyErr # "none" /\ copyErr' # "none")
          => /\ ppc' \in {"dequeue", "check", "done"}
             /\ files' = files
             /\ dirs' = dirs
             /\ deletedByFolder' = deletedByFolder ]_vars

\* C5 witness: the copy of a backup-enabled job failed for good, its source is
\* still on disk and the processor is back at the queue
CopyFailedSourceKept ==
  /\ copyErr = "failed"
  /\ ppc = "dequeue"
  /\ job.backup
  /\ job.srcPath \in files
  /\ dstPath \notin DOMAIN bk

\* C6: every destination the processor hands to the copy layer, and every
\* backup file and temp file the engine leaves, lies strictly under
\* <backup_root>/<run_date_label>/.
DestinationUnderBackupRoot ==
  /\ ppc \in {"copy", "backoff"} => \E l \in LabelDirs : IsUnder(dstPath, l)
  /\ \A p \in DOMAIN bk \cup tmps : \E l \in LabelDirs : IsUnder(p, l)

\* C7: directory reclamation removes only empty directories, in an unbroken
\* chain upward from the deleted file's parent, all strictly below
\* job.folderRoot: the root itself and its ancestors are never removed.  (A
\* step removes one directory; the chain is unbroken when every directory
\* between it and the deleted file is gone already.)
ReclamationStaysBelowRoot ==
  [][ \A d \in dirs \ dirs' :
        /\ IsUnder(d, job.folderRoot)
        /\ ~samePath(d, job.folderRoot)
        /\ isDirEmpty(d, dirs', files')
        /\ d = Dir(job.srcPath) \/ IsUnder(Dir(job.srcPath), d)
        /\ \A c \in InitDirs : (IsUnder(c, d) /\ IsUnder(job.srcPath, c)) => c \notin dirs ]_vars

\* C8: no directory removed during a run has a path equal (case-insensitively)
\* to the path of a configured root.
NoConfiguredRootRemoved ==
  \A d \in RemovedDirs : \A i \in 1..NRoots : ~samePath(d, Roots[i].Path)

\* C9: with MaxFiles = m > 0 the processor handles (attempts) at most m jobs.
HandledAtMostMaxFiles ==
  cfg.MaxFiles > 0 => handled <= cfg.MaxFiles

\* C10: with MaxFiles = m > 0 a run deletes at most m source files and creates
\* at most m backup files.
MaxFilesBoundsDeletesAndBackups ==
  cfg.MaxFiles > 0 =>
    /\ Cardinality(RemovedFiles) <= cfg.MaxFiles
    /\ Cardinality(DOMAIN bk) <= cfg.MaxFiles

\* C10 witness: the cap stopped the processor with a job still buffered, after
\* exactly MaxFiles deletes and backups
CapReachedWithJobsLeft ==
  /\ cfg.MaxFiles > 0
  /\ ppc = "done"
  /\ jobs # <<>>
  /\ Cardinality(RemovedFiles) = cfg.MaxFiles
  /\ Cardinality(DOMAIN bk) = cfg.MaxFiles

\* the files below root that are older than cfg.Days at the start of the run
AgedFiles(root) ==
  {f \in InitFiles : IsUnder(f, root) /\ MTime(f) < Clock[1] - cfg.Days}

\* a run over one directory root with more aged files than the cap, no
\* runtime limit and no failing filesystem call
CappedSingleRootRun ==
  /\ NRoots = 1
  /\ Roots[1].Path \in InitDirs
  /\ cfg.MaxFiles > 0
  /\ cfg.MaxFiles < Cardinality(AgedFiles(Roots[1].Path))
  /\ cfg.MaxRuntime = 0
  /\ faults = 0
  /\ firstErr = <<>>

\* C11: a run over a single directory root with n aged files, MaxFiles = m,
\* 0 < m < n, no runtime limit and no failing filesystem call always goes on
\* to return, and returns nil with exactly m files removed (n - m aged files
\* remaining).
CapRemovesExactlyMaxFiles ==
  CappedSingleRootRun =>
    /\ mpc \in {"rejected", "returned"} \/ ENABLED Next
    /\ mpc = "returned" =>
         /\ WorkerResult = "nil"
         /\ Cardinality(RemovedFiles) = cfg.MaxFiles
         /\ RemovedFiles \subseteq AgedFiles(Roots[1].Path)
         /\ Cardinality(AgedFiles(Roots[1].Path) \cap files)
              = Cardinality(AgedFiles(Roots[1].Path)) - cfg.MaxFiles

\* C11 witness: such a run has returned
CappedSingleRootRunReturned ==
  /\ CappedSingleRootRun
  /\ mpc = "returned"
  /\ Cardinality(RemovedFiles) = cfg.MaxFiles

\* C12: the backup gate is evaluated at most once, before Worker starts, and
\* exactly when some root has backup enabled; when it rejects the backup root
\* Run returns with no walker and no processor step taken, nothing copied
\* and nothing deleted.
BackupGateBeforeWorker ==
  /\ gate.calls <= 1
  /\ mpc = "run" => gate.calls = 0
  /\ mpc # "run" => (gate.calls = 1 <=> \E i \in 1..NRoots : Roots[i].Backup)
  /\ (gate.calls = 1 /\ ~gate.ok) <=> mpc = "rejected"
  /\ mpc \in {"run", "rejected"} =>
       /\ \A i \in 1..NRoots : wpc[i] = "none"
       /\ ppc = "dequeue" /\ jobs = <<>> /\ handled = 0 /\ processed = 0
       /\ files = InitFiles /\ dirs = InitDirs
       /\ bk = <<>> /\ bkdirs = {} /\ tmps = {}

\* C12 witness: the gate was evaluated and rejected the backup root
GateRejectedRun ==
  /\ mpc = "rejected"
  /\ gate.calls = 1
  /\ gate.kind = "dir"
  /\ ~gate.createOK

\* C13: CheckBackupPath returns true if and only if the backup root exists,
\* is a directory, and both the creation and the removal of the probe file
\* succeeded.
GateTrueIffProbeCreatedAndRemoved ==
  gate.calls > 0 =>
    (gate.ok <=> (gate.kind = "dir" /\ gate.createOK /\ gate.removeOK))

\* the jobs that exist: about to be enqueued, queued, or in the processor's hand
LiveJobs ==
  {PendingJob(i) : i \in {k \in 1..NRoots : wpc[k] \in {"enq", "enqfile"}}}
    \cup {jobs[k] : k \in DOMAIN jobs}
    \cup (IF ppc \in {"check", "copy", "backoff", "delete", "count", "cleanup", "processed"} THEN {job} ELSE {})

\* C14: a job exists only for a file whose modification time is strictly
\* before the cutoff (now - Days) of its discovery; a file whose mtime is at
\* or after the cutoff is neither copied nor deleted.  (The clock never goes
\* back, and the state after a discovery has the clock of the discovery.)
OnlyAgedFilesBecomeJobs ==
  /\ \A j \in LiveJobs : MTime(j.srcPath) < today - cfg.Days
  /\ \A f \in RemovedFiles : MTime(f) < today - cfg.Days
  /\ \A d \in DOMAIN bk : MTime(bk[d]) < today - cfg.Days

\* C14 witness: the walk of R1 is over, its aged files are gone and the file
\* whose mtime equals the cutoff is still there
CutoffFileKept ==
  /\ Roots[1].Path = R1
  /\ wpc[1] = "done"
  /\ mpc = "returned"
  /\ MTime(FileNew) = today - cfg.Days
  /\ FileNew \in files
  /\ FileA1 \notin files

\* C15: all destinations computed during one run carry the same date label,
\* also when the calendar date changes during the run: any two of them agree
\* on <backup_root>/<DDMmmYY>.
OneDateLabelPerRun ==
  LET dests == DOMAIN bk \cup tmps \cup {e.dst : e \in delLog} \cup
               (IF ppc \in {"copy", "backoff", "delete", "count", "cleanup", "processed"} THEN {dstPath} ELSE {})
  IN \A p, q \in dests : SubSeq(p, 1, Len(BackupRoot) + 1)
                            = SubSeq(q, 1, Len(BackupRoot) + 1)

\* the segments of srcPath below root
Below(root, srcPath) == SubSeq(srcPath, Len(root) + 1, Len(srcPath))

\* C16: for every job the destination is backup_root / run_date_label / rel,
\* rel being the path of job.srcPath below job.folderRoot (the root's own
\* name is not part of it); the run date label is that of the start of the run.
DestinationIsLabelThenRel ==
  ppc \in {"copy", "backoff", "delete", "count", "cleanup", "processed"} =>
    /\ SubSeq(job.srcPath, 1, Len(job.folderRoot)) = job.folderRoot
    /\ dstPath = BackupRoot \o <<DateLabel(Clock[1])>>
                   \o Below(job.folderRoot, job.srcPath)

\* C17: buildBackupPath returns backupRoot/<DDMmmYY>/<path of srcPath relative
\* to the parent directory of folderRoot>, so the destination contains the
\* configured folder's own name (the label being that of either day).
DestinationKeepsFolderName ==
  ppc \in {"copy", "backoff", "delete", "count", "cleanup", "processed"} =>
    \E l \in LabelDirs :
      dstPath = Join(l, Rel(Dir(job.folderRoot), job.srcPath).rel)

\* C18: after a failed copy attempt, whichever step failed, <dest>.tmp does
\* not exist: no temp file is on disk between attempts or after Worker
\* returns.  (An attempt is one step of the model, so every state lies between
\* attempts.)
NoTempFileLeft == tmps = {}

\* C19: when the destination of a backup-enabled job already exists as the
\* job is handled, the processor goes to the delete phase without a copy, the
\* backup tree stays as it is, and the delete phase removes the source (unless
\* the removal itself fails).
ExistingDestinationSkipsCopy ==
  [][ /\ (ppc = "check" /\ ppc' \notin {"check", "done"} /\ job.backup
           /\ dstPath' \in DOMAIN bk)
          => (ppc' = "delete" /\ bk' = bk /\ tmps' = tmps)
      /\ (ppc = "delete" /\ ppc' # "delete")
          => (bk' = bk /\ tmps' = tmps
              /\ (job.srcPath \notin files' \/ faults' > faults)) ]_vars

\* C19 witness: a source was deleted whose destination existed before it was
\* handled, and the file there is still the earlier one
DeletedWithExistingDestination ==
  /\ faults = 0
  /\ \E e \in delLog :
       /\ e.job.backup
       /\ e.job.srcPath \notin files
       /\ e.dst \in DOMAIN bk
       /\ bk[e.dst] # e.job.srcPath

\* C20: when a configured root cannot be accessed at all, its walker sets the
\* first-error latch and cancels the run, and Worker returns that error.
InaccessibleRootIsLatched ==
  \A i \in 1..NRoots :
    (wpc[i] = "done" /\ Roots[i].Path \notin InitFiles \cup InitDirs) =>
      /\ firstErr # <<>>
      /\ cancelled
      /\ mpc = "returned" => WorkerResult = "error"

RECURSIVE EnqueuedUpTo(_)
\* the number of jobs the walkers 1..k have sent on the channel
EnqueuedUpTo(k) == IF k = 0 THEN 0 ELSE enq[k] + EnqueuedUpTo(k - 1)

Enqueued == EnqueuedUpTo(NRoots)

\* C21: per-item failures never become the run's result.  A step in which a
\* filesystem call fails (a walk entry, a copy attempt, a delete, a
\* reclamation) latches no error, cancels nothing and ends neither the walker
\* nor the processor; Worker returns an error only when a hard walk error was
\* latched; and when no stop condition and no cancellation ended the run, every
\* entry has been visited and every job enqueued has been handled at the return.
PerItemFailuresStayLocal ==
  [][ /\ faults' > faults =>
           /\ firstErr' = firstErr
           /\ cancelled' = cancelled
           /\ ppc' # "done"
           /\ \A i \in 1..NRoots : wpc'[i] # "done"
                                     \/ wpc'[i] = wpc[i]
      /\ mpc' = "returned" =>
           /\ result' = "error" <=> firstErr' # <<>>
           /\ result' = "nil" <=> firstErr' = <<>>
           /\ (cfg.MaxFiles = 0 /\ cfg.MaxRuntime = 0 /\ ~cancelled') =>
                /\ \A i \in 1..NRoots : wpc'[i] = "done" /\ wtodo'[i] = <<>>
                /\ jobs' = <<>>
                /\ handled' = Enqueued' ]_vars

\* C21 witness: a filesystem call failed during the run, the jobs after it were
\* still handled (two sources are gone) and Worker has returned nil
ReturnedNilAfterFailure ==
  /\ mpc = "returned"
  /\ faults > 0
  /\ gate.removeOK \/ gate.calls = 0
  /\ result = "nil"
  /\ Cardinality(RemovedFiles) >= 2

\* C22: copy and delete are serialized and done by the processor alone.  Every
\* step that changes the source tree or the backup tree is a step of the single
\* processor in its copy phase, its delete or its reclamation, and no step of
\* a walker or of Worker's own goroutine; one step is a copy attempt, the
\* removal of the source in hand or the removal of one empty directory, never
\* two of them.
FileOperationsOnlyInProcessor ==
  [][ /\ (files' # files \/ dirs' # dirs \/ bk' # bk \/ bkdirs' # bkdirs \/ tmps' # tmps)
          => /\ ppc \in {"copy", "delete", "cleanup"}
             /\ ppc' # ppc \/ attempt' # attempt \/ faults' # faults \/ cur' # cur
             /\ wpc' = wpc /\ wtodo' = wtodo /\ jobs' = jobs /\ enq' = enq
             /\ mpc' = mpc /\ mi' = mi /\ closed' = closed
      /\ (bk' # bk \/ bkdirs' # bkdirs \/ tmps' # tmps)
          => (ppc = "copy" /\ files' = files /\ dirs' = dirs)
      /\ files' # files
          => /\ ppc = "delete"
             /\ files' = files \ {job.srcPath}
             /\ dirs' = dirs /\ bk' = bk /\ bkdirs' = bkdirs /\ tmps' = tmps
      /\ dirs' # dirs
          => /\ ppc = "cleanup"
             /\ dirs' = dirs \ {cur}
             /\ files' = files /\ bk' = bk /\ bkdirs' = bkdirs /\ tmps' = tmps ]_vars

\* C22 witness: two walkers are running while the processor has copied a file
\* and is about to delete its source
TwoWalkersDuringDelete ==
  /\ cfg.Walkers = 2
  /\ Running = 2
  /\ ppc = "delete"
  /\ job.backup
  /\ dstPath \in DOMAIN bk
  /\ bk[dstPath] = job.srcPath

\* C23: the shutdown order.  The queue is closed only when every walker that
\* was started has exited, and nothing is sent on it afterwards; the final
\* reporting starts only when the processor has exited (no report line is
\* written and Worker is at none of the reporting steps before that), and an
\* exited processor deletes nothing and updates no counter.
ShutdownOrder ==
  [][ /\ closed' => \A i \in 1..NRoots : wpc'[i] \in {"none", "done"}
      /\ closed => (enq' = enq /\ Len(jobs') <= Len(jobs))
      /\ mpc' \in {"report", "warn", "returned"} => (closed' /\ ppc' = "done")
      /\ report' # report => (closed /\ ppc = "done")
      /\ ppc = "done" =>
           /\ ppc' = "done"
           /\ files' = files /\ dirs' = dirs
           /\ deletedByFolder' = deletedByFolder
           /\ processed' = processed
      /\ mpc = "returned" => report' = report ]_vars

\* C23 witness: the queue was closed with a job still in it and the processor
\* busy with an earlier one, every walker having exited after sending
ClosedWhileProcessorBusy ==
  /\ closed
  /\ mpc = "procwait"
  /\ jobs # <<>>
  /\ ppc = "delete"
  /\ \A i \in 1..NRoots : wpc[i] = "done" /\ enq[i] > 0

\* C24: at the final reporting every directory root gets a count line with the
\* number of files deleted under that root's name, and every single-file root
\* whose file was deleted in the run gets a "File deleted" line.  (Stated for
\* the runs in which no filesystem call failed.)
FinalReportCoversEveryRoot ==
  (mpc = "returned" /\ faults = 0) =>
    \A i \in 1..NRoots :
      LET path == Roots[i].Path IN
        /\ path \in InitDirs =>
             [line |-> "count", path |-> path,
              n |-> Cardinality({e \in delLog : e.job.folderRoot = path})] \in report
        /\ (path \in InitFiles \ Links /\ path \notin files) =>
             \E m \in report : m.line = "file" /\ m.path = path

\* the successful deletes on record for folderRoot d
DeletesOf(d) == Cardinality({e \in delLog : e.job.folderRoot = d})

\* C25: deletedByFolder[job.folderRoot] goes up by exactly one for each job
\* whose source was removed, in the processor's step that follows the removal,
\* and no other step and no other key changes: not a failed delete, not a
\* failed copy, not a skipped job.  No count ever goes down.  The processor
\* is at the count only after a successful removal, and each count equals the
\* successful deletes of its folder, less the one still to be counted.
DeletedCountTracksRemovals ==
  /\ [][ /\ files' # files
              => (ppc = "delete" /\ ppc' = "count" /\ files' = files \ {job.srcPath})
         /\ (ppc # "count" /\ ppc' = "count") => files' # files
         /\ \A d \in DOMAIN deletedByFolder :
              deletedByFolder'[d] =
                deletedByFolder[d]
                  + (IF ppc = "count" /\ ppc' # "count" /\ d = job.folderRoot THEN 1 ELSE 0)
         /\ DOMAIN deletedByFolder' = DOMAIN deletedByFolder ]_vars
  /\ [](\A d \in DOMAIN deletedByFolder :
          deletedByFolder[d] + (IF ppc = "count" /\ job.folderRoot = d THEN 1 ELSE 0)
            = DeletesOf(d))

\* C25 witness: three jobs of R1 were handled, one delete failed, and the
\* count of R1 is two
TwoCountedOneFailed ==
  /\ Roots[1].Path = R1
  /\ processed = 3
  /\ Cardinality(RemovedFiles) = 2
  /\ deletedByFolder[R1] = 2
  /\ faults = 1

\* no configured path is equal to, or lies below, another one: every file is
\* found by one walker at most
DisjointRoots ==
  \A i, k \in 1..NRoots :
    i # k => /\ Roots[i].Path # Roots[k].Path
             /\ ~IsUnder(Roots[i].Path, Roots[k].Path)

\* the jobs sent on the channel and not yet past the processor's stop check
Unhandled == Len(jobs) + (IF ppc = "check" THEN 1 ELSE 0)

\* C26 as stated: processed never exceeds the number of jobs enqueued so far;
\* the jobs still in the queue, or dequeued only to meet the stop check, when
\* the processor exits are never counted, and their source files are left
\* untouched: still on disk and without a backup, whatever the root list.
LeftoverSourcesUntouched ==
  [][ /\ processed' <= handled'
      /\ handled' + Unhandled' <= Enqueued'
      /\ (ppc = "check" /\ ppc' = "done") =>
           /\ processed' = processed /\ handled' = handled
           /\ files' = files /\ dirs' = dirs
           /\ bk' = bk /\ bkdirs' = bkdirs /\ tmps' = tmps
           /\ deletedByFolder' = deletedByFolder
           /\ job.srcPath \in files'
           /\ \A d \in DOMAIN bk' : bk'[d] # job.srcPath
      /\ ppc = "done" =>
           /\ processed' = processed /\ handled' = handled
           /\ files' = files /\ dirs' = dirs
           /\ bk' = bk /\ bkdirs' = bkdirs /\ tmps' = tmps
           /\ deletedByFolder' = deletedByFolder
           /\ Len(jobs') >= Len(jobs)
      /\ ppc' = "done" =>
           \A k \in DOMAIN jobs' :
             /\ jobs'[k].srcPath \in files'
             /\ \A d \in DOMAIN bk' : bk'[d] # jobs'[k].srcPath ]_vars

\* C26, amended: processed never exceeds the number of jobs enqueued so far: it
\* counts only jobs that passed the stop check.  The job dequeued only to meet
\* the stop check is not counted and nothing is done for it, and once the
\* processor has exited nothing is counted, copied or deleted, so the jobs
\* left in the queue stay as they are; when no configured path is equal to or
\* lies below another, the sources of those jobs are still on disk and have no
\* backup.
UnprocessedJobsUntouched ==
  [][ /\ processed' <= handled'
      /\ handled' + Unhandled' <= Enqueued'
      /\ (ppc = "check" /\ ppc' = "done") =>
           /\ processed' = processed /\ handled' = handled
           /\ files' = files /\ dirs' = dirs
           /\ bk' = bk /\ bkdirs' = bkdirs /\ tmps' = tmps
           /\ deletedByFolder' = deletedByFolder
           /\ DisjointRoots =>
                (job.srcPath \in files' /\ \A d \in DOMAIN bk' : bk'[d] # job.srcPath)
      /\ ppc = "done" =>
           /\ processed' = processed /\ handled' = handled
           /\ files' = files /\ dirs' = dirs
           /\ bk' = bk /\ bkdirs' = bkdirs /\ tmps' = tmps
           /\ deletedByFolder' = deletedByFolder
           /\ Len(jobs') >= Len(jobs)
      /\ (ppc' = "done" /\ DisjointRoots) =>
           \A k \in DOMAIN jobs' :
             /\ jobs'[k].srcPath \in files'
             /\ \A d \in DOMAIN bk' : bk'[d] # jobs'[k].srcPath ]_vars

\* C26 witness: the cap stopped the processor at the stop check with a job in
\* hand, the run returned, and that job's source is still there, not counted
StoppedJobLeftAlone ==
  /\ mpc = "returned"
  /\ cfg.MaxFiles > 0
  /\ processed = cfg.MaxFiles
  /\ handled = processed
  /\ Enqueued = handled + 1 + Len(jobs)
  /\ job.srcPath \in files
  /\ DisjointRoots
  /\ faults = 0

\* a run without cap and runtime limit in which nothing was cancelled, the
\* backup root was accepted and no filesystem call failed for a reason of its
\* own
UncappedCleanRun ==
  /\ cfg.MaxFiles = 0
  /\ cfg.MaxRuntime = 0
  /\ mpc # "rejected"
  /\ ~cancelled
  /\ firstErr = <<>>
  /\ faults = 0

\* the regular files at or below root that are older than cfg.Days when the
\* run starts (a symbolic link to a directory is not one of them)
AgedUnder(root) ==
  {f \in InitFiles \ Links :
     (f = root \/ IsUnder(f, root)) /\ MTime(f) < Clock[1] - cfg.Days}

AllAged == UNION {AgedUnder(Roots[i].Path) : i \in 1..NRoots}

\* the files that are not older than cfg.Days even now
NotAged == {f \in InitFiles : MTime(f) >= today - cfg.Days}

\* C27: a run with MaxFiles = 0, MaxRuntime = 0, no cancellation and no failing
\* filesystem call always goes on to return, returns nil, and has then handled
\* every aged file under every configured root exactly once: each of them is
\* gone from its source path through exactly one delete, every job handled
\* without a failure removed a different file, and every file that is not aged
\* is still there and has no backup.
HandlesEveryAgedFile ==
  UncappedCleanRun =>
    /\ mpc = "returned" \/ ENABLED Next
    /\ mpc = "returned" =>
         /\ result = "nil"
         /\ jobs = <<>>
         /\ \A f \in AllAged :
              /\ f \notin files
              /\ Cardinality({e \in delLog : e.job.srcPath = f}) = 1
         /\ (processed = handled /\ Cardinality(delLog) = processed)
              => handled = Cardinality(RemovedFiles)
         /\ \A f \in NotAged :
              /\ f \in files
              /\ \A d \in DOMAIN bk : bk[d] # f

\* C27 witness: the run over R1 and R2 returned with the three aged files gone
\* and the recent one kept
AllAgedHandled ==
  /\ UncappedCleanRun
  /\ mpc = "returned"
  /\ NRoots = 2
  /\ RemovedFiles = {FileA1, FileOld, FileA2}
  /\ handled = 3
  /\ FileNew \in files

\* the pathConfigs that name a regular file
FileRoots == {i \in 1..NRoots : Roots[i].Path \in InitFiles \ Links}

\* C28: the walker of a single-file root whose mtime is strictly before the
\* cutoff emits exactly one job, with srcPath = the root's path and folderRoot
\* = its parent directory; for a file that is not old enough it emits none.
\* (A walker that finds the run cancelled, or the file already removed
\* through another root, emits nothing.)
FileRootEmitsOneJob ==
  [][ \A i \in FileRoots :
        LET path == Roots[i].Path IN
          /\ enq'[i] # enq[i] =>
               /\ enq[i] = 0 /\ enq'[i] = 1
               /\ MTime(path) < today - cfg.Days
               /\ jobs' = Append(jobs, [srcPath |-> path, folderRoot |-> Dir(path),
                                        backup |-> Roots[i].Backup])
          /\ (wpc'[i] = "done" /\ ~cancelled' /\ MTime(path) < Clock[1] - cfg.Days) =>
               \/ enq'[i] = 1
               \/ \E e \in delLog' : e.job.srcPath = path
          /\ (wpc'[i] = "done" /\ MTime(path) >= today' - cfg.Days) => enq'[i] = 0 ]_vars

\* C28 witness: the walker of the file root C:\r2\a.txt has finished and its
\* one job is in the queue
FileRootJobQueued ==
  /\ Roots[1].Path = FileA2
  /\ wpc[1] = "done"
  /\ enq[1] = 1
  /\ jobs = <<[srcPath |-> FileA2, folderRoot |-> R2, backup |-> TRUE]>>

\* C30: copyFileWithRetry makes at most Retries + 1 attempts (the attempt
\* index never exceeds Retries); the first attempt that succeeds ends it with
\* success; a failed attempt that is not the last is followed by a wait of
\* 250 ms after attempt 0, 1 s after attempt 1 and 3 s after any later attempt,
\* and by the next attempt; the last failed attempt is followed by no wait and
\* by the error return.
RetryProtocol ==
  [][ /\ attempt' <= cfg.Retries
      /\ (ppc = "copy" /\ ~cancelled /\ bk' # bk) =>
           /\ copyErr' = "none" /\ ppc' = "delete"
           /\ attempt' = attempt /\ waits' = waits
      /\ (ppc = "copy" /\ ppc' # "copy" /\ ~cancelled /\ bk' = bk
            /\ attempt < cfg.Retries) =>
           /\ ppc' = "backoff" /\ attempt' = attempt /\ waits' = waits
      /\ (ppc = "copy" /\ ppc' # "copy" /\ ~cancelled /\ bk' = bk
            /\ attempt >= cfg.Retries) =>
           /\ copyErr' = "failed" /\ ppc' = "dequeue" /\ waits' = waits
      /\ (ppc = "backoff" /\ ppc' = "copy") =>
           /\ attempt' = attempt + 1
           /\ waits' = Append(waits, IF attempt = 0 THEN 250
                                     ELSE IF attempt = 1 THEN 1000 ELSE 3000)
      /\ waits' # waits => (ppc = "backoff" \/ (ppc = "check" /\ waits' = <<>>))
      /\ ppc' \in {"copy", "backoff"} => Len(waits') = attempt' ]_vars

\* C30 witness: with Retries = 3 all four attempts failed; the waits were
\* 250 ms, 1 s and 3 s and the copy returned its error
FourAttemptsFailed ==
  /\ cfg.Retries = 3
  /\ copyErr = "failed"
  /\ attempt = 3
  /\ waits = <<250, 1000, 3000>>
  /\ ppc = "dequeue"

\* the log files directly inside the log directory that are older than the
\* retention
OldLogs ==
  {f \in {LogOld, LogCut, LogNew, LogSubOld} \cup DayLogs :
     Dir(f) = LogDir /\ LogMTime(f) < today - logcfg.LogRetention}

\* C31: RemoveOldLogs removes only non-directory entries directly inside the
\* log directory whose modification time is strictly before now minus the
\* retention (so never a log file of the run itself), and removes no
\* directory and nothing below a subdirectory; once it has read the directory
\* it returns nil, also when a removal failed; when the log directory is
\* missing it calls os.MkdirAll and, the directory created, returns nil with
\* nothing removed.  Run calls it at most once, only after Worker returned nil
\* and only when NoLogs is not set, and returns what it returned; outside
\* RemoveOldLogs nothing is removed from the log tree.
PruneOnlyOldTopLevelLogs ==
  [][ /\ rpc \in {"stat", "entries"} =>
           /\ logfiles' \subseteq logfiles
           /\ logfiles \ logfiles' \subseteq OldLogs
           /\ logdirs \subseteq logdirs'
           /\ LogSubOld \in logfiles => LogSubOld \in logfiles'
      /\ rpc \notin {"stat", "entries"} =>
           (logfiles \subseteq logfiles' /\ logdirs' = logdirs)
      /\ (rpc = "entries" /\ rpc' = "returned") => runres' = "nil"
      /\ (rpc = "stat" /\ rpc' # "stat" /\ LogDir \notin logdirs \cup logfiles) =>
           /\ rpc' = "returned"
           /\ logfiles' = logfiles
           /\ LogDir \in logdirs' <=> runres' = "nil"
           /\ LogDir \notin logdirs' <=> runres' = "error"
      /\ prunes' <= 1
      /\ (rpc # "stat" /\ rpc' = "stat") =>
           /\ rpc = "worker" /\ prunes = 0
           /\ mpc = "returned" /\ result = "nil" /\ ~logcfg.NoLogs
      /\ (rpc' = "returned" /\ mpc = "returned") =>
           /\ prunes' = 1 <=> (result = "nil" /\ ~logcfg.NoLogs)
           /\ result = "error" => runres' = "error"
           /\ (result = "nil" /\ logcfg.NoLogs) => runres' = "nil"
      /\ files' = files /\ dirs' = dirs /\ bk' = bk ]_vars

\* C31 witness: Run returned nil after RemoveOldLogs removed one old log,
\* failed to remove another, and left alone the recent log, the maintenance
\* log of the run and the subdirectory with its old file
PrunedWithFailedRemoval ==
  /\ rpc = "returned"
  /\ mpc = "returned"
  /\ prunes = 1
  /\ runres = "nil"
  /\ logcfg.LogRetention = 1
  /\ LogOld \notin logfiles
  /\ rmfail = {LogCut}
  /\ LogCut \in logfiles
  /\ LogNew \in logfiles
  /\ MaintenanceLog(today) \in logfiles
  /\ LogSubOld \in logfiles
  /\ LogSub \in logdirs

\* C32: when no configured root has backup enabled, Run needs no backup root:
\* it does not return before Worker has run (loading the configuration
\* succeeds whatever config.ini says about the backup root), the gate is not
\* evaluated, and Worker deletes without writing anything to a backup tree.
BackupRootOnlyForBackupRuns ==
  ~anyBackupEnabled =>
    /\ rpc = "returned" => mpc = "returned"
    /\ gate.calls = 0
    /\ bk = <<>> /\ bkdirs = {} /\ tmps = {}

\* C34: once ctx is done or shouldStop() holds, a walker that is at an entry
\* exits there without going on to another entry, a walker waiting to send
\* sends at most that one job and exits at the entry after it, and no walker
\* starts on a root it had not started on (a goroutine launched afterwards
\* returns before os.Stat of its root).
WalkersStopWithinOneEntry ==
  [][ (cancelled \/ shouldStop) =>
        \A i \in 1..NRoots :
          /\ wpc[i] = "start" => wpc'[i] \in {"start", "done"}
          /\ (wpc[i] = "walk" /\ (wpc'[i] # "walk" \/ wtodo'[i] # wtodo[i])) =>
               (wpc'[i] = "done" /\ wtodo'[i] = wtodo[i])
          /\ enq'[i] # enq[i] =>
               (wpc[i] \in {"enq", "enqfile"} /\ wpc'[i] \in {"walk", "done"}
                  /\ enq'[i] = enq[i] + 1) ]_vars

\* C35: at every moment at most cfg.Walkers walkers hold a semaphore slot,
\* with a configured count of zero or less counting as 1 (the launch loop can
\* then still start a walker whenever none is running); every root is taken
\* by one launch (the roots are taken in order, one per launch), and a walker
\* visits entries and emits jobs of its own root only.
WalkersBoundedOnePerRoot ==
  /\ Running <= (IF cfg.Walkers <= 0 THEN 1 ELSE cfg.Walkers)
  /\ (mpc = "acquire" /\ Running = 0) => ENABLED MainLaunch
  /\ mpc \in {"loop", "acquire", "wait", "procwait", "returned"} =>
       /\ \A i \in 1..NRoots : wpc[i] # "none" <=> i < mi
       /\ mi <= NRoots + 1
  /\ \A i \in 1..NRoots :
       /\ \A k \in DOMAIN wtodo[i] :
            wtodo[i][k] = Roots[i].Path \/ IsUnder(wtodo[i][k], Roots[i].Path)
       /\ wpc[i] \in {"enq", "enqfile"} =>
            /\ PendingJob(i).srcPath = Roots[i].Path
                 \/ IsUnder(PendingJob(i).srcPath, Roots[i].Path)
            /\ PendingJob(i).backup = Roots[i].Backup

\* C35 witness: with a configured walker count of zero the walker of the
\* second root runs alone, after the first one has released the slot
DefaultedWalkerRunsAlone ==
  /\ cfg.Walkers = 0
  /\ wpc[1] = "done"
  /\ enq[1] > 0
  /\ wpc[2] = "enq"
  /\ Running = 1

\* the place of a name in the order of os.ReadDir
NameIndex(n) == CHOOSE k \in DOMAIN Names : Names[k] = n

RECURSIVE Before(_, _)
\* p comes before q in the order of filepath.WalkDir: a directory before what
\* it holds, the entries of a directory by name
Before(p, q) ==
  IF q = <<>> THEN FALSE
  ELSE IF p = <<>> THEN TRUE
  ELSE IF Head(p) = Head(q) THEN Before(Tail(p), Tail(q))
  ELSE NameIndex(Head(p)) < NameIndex(Head(q))

\* the sources of walker i's jobs, oldest first: in the processor's hand,
\* in the queue, about to be sent, and the entries it has still to visit
Pipeline(i) ==
  LET mine(j) == j.folderRoot = Roots[i].Path /\ j.backup = Roots[i].Backup
      hand == IF ppc \in {"check", "copy", "backoff", "delete", "count", "cleanup", "processed"} /\ mine(job)
              THEN <<job.srcPath>> ELSE <<>>
      queued == SelectSeq(jobs, mine)
  IN hand \o [k \in DOMAIN queued |-> queued[k].srcPath] \o wtodo[i]

\* C36: the queue is first-in first-out and hands every job over once: a step
\* either leaves the queue alone, or appends the job a walker sends at its
\* tail, or takes the job at its head into the processor's hand, and the job
\* in hand changes in no other way; for the jobs of one walker (every root
\* being a directory, so that folderRoot and backup flag name a job's walker)
\* the order of discovery is kept: the job in hand comes before those in the
\* queue, those in the queue are in walk order, and all of them come before
\* the entries the walker has still to visit.
QueueIsFifo ==
  /\ [][ /\ \/ jobs' = jobs
            \/ \E i \in 1..NRoots :
                 /\ wpc[i] \in {"enq", "enqfile"}
                 /\ enq'[i] = enq[i] + 1
                 /\ jobs' = Append(jobs, PendingJob(i))
            \/ /\ jobs # <<>>
               /\ ppc = "dequeue" /\ ppc' = "check"
               /\ job' = Head(jobs)
               /\ jobs' = Tail(jobs)
         /\ job' # job => jobs' # jobs
         /\ enq' # enq => Len(jobs') = Len(jobs) + 1 ]_vars
  /\ [](FileRoots = {} =>
          \A i \in 1..NRoots :
            \A k, l \in DOMAIN Pipeline(i) :
              k < l => Before(Pipeline(i)[k], Pipeline(i)[l]))

\* C36 witness: the processor has old.txt of C:\r1 in hand, found first, while
\* the queue holds a.txt of C:\r1 and behind it a.txt of C:\r2
OldestInHandTwoQueued ==
  /\ ppc = "delete"
  /\ job.srcPath = FileOld
  /\ Len(jobs) = 2
  /\ jobs[1].srcPath = FileA1
  /\ jobs[2].srcPath = FileA2

\* work was left undone: a root was never started, a walker left entries
\* unvisited, or a job that was sent was not handled
WorkLeftUndone ==
  \/ \E i \in 1..NRoots : wpc[i] = "none" \/ wtodo[i] # <<>>
  \/ Enqueued # handled

\* C38: when Worker returns nil, a "Stopped due to max runtime / max files"
\* line is emitted exactly when the run ended early, with work left undone;
\* a run that discovered and handled all of its work emits none.  (Stated for
\* the runs in which no filesystem call failed.)
StopWarningOnlyOnEarlyExit ==
  (mpc = "returned" /\ result = "nil" /\ faults = 0) =>
    (warned # {} <=> WorkLeftUndone)

\* the folderRoot of the jobs of walker i
JobFolder(i) ==
  IF Roots[i].Path \in InitFiles \ Links THEN Dir(Roots[i].Path) ELSE Roots[i].Path

\* the walker that sent job j (folderRoot and backup flag tell the walkers of
\* every configured list apart)
Owner(j) ==
  CHOOSE i \in 1..NRoots : j.folderRoot = JobFolder(i) /\ j.backup = Roots[i].Backup

\* the jobs sent and not yet done with, oldest first
InFlight ==
  (IF ppc \in {"check", "copy", "backoff", "delete", "count", "cleanup", "processed"} THEN <<job>> ELSE <<>>) \o jobs

\* C39: with one walker slot the roots are walked one after another in the
\* order of the configuration: a walker has started only when every walker
\* before it is done; the jobs in flight are in the order of their roots; and
\* the job the processor handles as its h-th belongs to the root k within whose
\* share of the jobs sent h falls (EnqueuedUpTo(k-1) < h <= EnqueuedUpTo(k)), so
\* every job of an earlier root is handled before any job of a later one and a
\* max_files cap is used up by the earlier roots first.
RootsHandledInConfiguredOrder ==
  WalkerSlots = 1 =>
    /\ \A i, k \in 1..NRoots : (i < k /\ wpc[k] # "none") => wpc[i] = "done"
    /\ \A a, b \in DOMAIN InFlight :
         a < b => Owner(InFlight[a]) <= Owner(InFlight[b])
    /\ ppc \in {"copy", "backoff", "delete", "count", "cleanup", "processed"} =>
         /\ EnqueuedUpTo(Owner(job) - 1) < handled
         /\ handled <= EnqueuedUpTo(Owner(job))

\* C39 witness: one walker, roots C:\r1 then C:\r2; both aged files of C:\r1
\* have been handled and the processor is deleting a.txt of C:\r2, its third job
SecondRootHandledLast ==
  /\ cfg.Walkers = 1
  /\ cfg.roots = <<PathConfig(R1, TRUE), PathConfig(R2, TRUE)>>
  /\ enq = <<2, 1>>
  /\ ppc = "delete"
  /\ job.srcPath = FileA2
  /\ handled = 3
  /\ FileA1 \notin files /\ FileOld \notin files

RECURSIVE SumCounts(_, _)
\* the sum of counts[d] over the keys d of S
SumCounts(counts, S) ==
  IF S = {} THEN 0
  ELSE LET d == CHOOSE x \in S : TRUE
       IN counts[d] + SumCounts(counts, S \ {d})

\* the sum of deletedByFolder over all its keys
TotalDeleted == SumCounts(deletedByFolder, DOMAIN deletedByFolder)

\* C40: a file found under two roots and sent twice is deleted and counted
\* once: at every moment of every run the counts of deletedByFolder, with the
\* removal the processor has yet to count, add up to the number of distinct
\* source files removed (so they do whenever the processor is not between a
\* removal and its count, and when Worker returns); no source file has two
\* successful deletes on record, and every file removed has one.
DuplicateJobCountedOnce ==
  /\ TotalDeleted + (IF ppc = "count" THEN 1 ELSE 0) = Cardinality(RemovedFiles)
  /\ mpc = "returned" => TotalDeleted = Cardinality(RemovedFiles)
  /\ \A e1, e2 \in delLog : e1.job.srcPath = e2.job.srcPath => e1 = e2
  /\ {e.job.srcPath : e \in delLog} = RemovedFiles

\* C40 witness: a.txt of C:\r2 was sent twice, as the file root and by the
\* walker of C:\r2; both jobs were handled with no failure, the file is gone
\* and C:\r2 has one delete on its count; or C:\r2 itself was configured
\* twice, with the same outcome
SameFileSentTwiceCountedOnce ==
  /\ cfg.roots \in {<<PathConfig(FileA2, TRUE), PathConfig(R2, FALSE)>>,
                    <<PathConfig(R2, TRUE), PathConfig(R2, FALSE)>>}
  /\ enq = <<1, 1>>
  /\ processed = 2
  /\ faults = 0
  /\ ppc = "dequeue" /\ jobs = <<>>
  /\ FileA2 \notin files
  /\ deletedByFolder[R2] = 1
  /\ TotalDeleted = 1

====
